---- MODULE Spec2Model ----
(***************************************************************************)
(* A model of the request/response shaping layer of the Gmail MCP server:  *)
(* filename sanitisation and the artifact store, date validation, the      *)
(* query builder, the field projector, body extraction and the two batch   *)
(* policies of get_emails.  Strings are sequences of one-character         *)
(* strings, so that every conversion is computed character by character.   *)
(***************************************************************************)
EXTENDS Integers, Sequences, FiniteSets, TLC

VARIABLES
    pc,               \* which handler step the modelled invocation has reached
    tool,             \* the tool (and implementation) being invoked
    rawName,          \* sanitizer: the caller-supplied string
    safeName,         \* sanitizer: sanitize_filename's result
    againName,        \* sanitizer: the result of sanitizing safeName once more
    files,            \* artifact store: resolved path -> content
    providerCalls,    \* the calls issued to the mailbox provider, in order
    dateParts,        \* date validator: what the input string was written from
    date_str,         \* date validator: the input string (or None)
    dateValid,        \* date validator: validate_date_format's result
    req,              \* search: the arguments of the request
    searchOut,        \* search: the outcome of the request
    message_ids,      \* batch: the ids of the request, in order
    failing,          \* batch: the positions at which the provider raises
    batchOut,         \* batch: the outcome of the request
    fieldTokens,      \* field projector: the entries fields_param was written from
    fields_param,     \* field projector: the fields argument (or None)
    requested_fields, \* field projector: parse_message_fields' result
    result_lines,     \* field projector: the lines format_message_with_fields emits
    message,          \* the provider message being rendered
    bodyText,         \* body extraction: parse_message_body's result
    thread_id,        \* thread: the id of the requested thread
    thread,           \* thread: the thread object the provider answers with
    threadOut,        \* thread: the outcome of the request
    phase,            \* lifespan: where the server process is in its run
    authOk,           \* lifespan: whether get_gmail_service succeeds at startup
    dirExists,        \* lifespan: whether the export directory exists on disk
    mkdirs,           \* lifespan: how many times the directory was created
    rmdirs,           \* lifespan: how many times the directory was removed
    served,           \* lifespan: how many tool invocations were served
    handles,          \* lifespan: the paths returned to callers
    authEnv,          \* startup: the token file, the credentials file, the provider
    startupOut,       \* startup: what get_gmail_service did
    invocations,      \* concurrency: each tool invocation's request and position
    writeLog,         \* concurrency: the writes done so far, in order
    environ,          \* configuration: the process environment
    lruCache,         \* configuration: get_settings' cache, least recent first
    instances,        \* configuration: the Settings objects created so far
    cfgOut,           \* configuration: the last get_settings call and its result
    cfgSeen,          \* configuration: per argument, the object last returned and
                      \* the environment it was built in
    attachOut         \* attachments: what the scan of the message returned

sanVars == <<rawName, safeName, againName>>
dateVars == <<dateParts, date_str, dateValid>>
searchVars == <<req, searchOut>>
batchVars == <<message_ids, failing, batchOut>>
fieldVars == <<fieldTokens, fields_param, requested_fields, result_lines>>
bodyVars == <<message, bodyText>>
threadVars == <<thread_id, thread, threadOut>>
authVars == <<authEnv, startupOut>>
lifeVars == <<phase, authOk, dirExists, mkdirs, rmdirs, served, handles, authVars>>
concVars == <<invocations, writeLog>>
cfgVars == <<environ, lruCache, instances, cfgOut, cfgSeen>>
attVars == <<attachOut>>
extVars == <<threadVars, lifeVars, concVars, cfgVars, attVars>>
extButThread == <<lifeVars, concVars, cfgVars, attVars>>
extButLife == <<threadVars, concVars, cfgVars, attVars>>
extButConc == <<threadVars, lifeVars, cfgVars, attVars>>
extButCfg == <<threadVars, lifeVars, concVars, attVars>>

vars == <<pc, tool, files, providerCalls, sanVars, dateVars, searchVars, batchVars,
          fieldVars, bodyVars, extVars>>

\* Python's None, distinct from every string
None == <<"<None>">>

\* Python truthiness of an Optional[str]
Truthy(s) == s # None /\ s # <<>>

(***************************************************************************)
(* Sequence helpers                                                        *)
(***************************************************************************)
SeqsUpTo(S, n) == UNION {[1..k -> S] : k \in 0..n}

Repeat(c, n) == [i \in 1..n |-> c]

RECURSIVE Flatten(_)
Flatten(ss) == IF ss = <<>> THEN <<>> ELSE Head(ss) \o Flatten(Tail(ss))

StartsWith(s, p) == Len(s) >= Len(p) /\ SubSeq(s, 1, Len(p)) = p

(***************************************************************************)
(* Character classes (str.isalnum over the modelled alphabet)              *)
(***************************************************************************)
LowerCase == <<"a", "b", "c", "d", "e", "f", "g", "h", "i", "j", "k", "l", "m",
               "n", "o", "p", "q", "r", "s", "t", "u", "v", "w", "x", "y", "z">>
UpperCase == <<"A", "B", "C", "D", "E", "F", "G", "H", "I", "J", "K", "L", "M",
               "N", "O", "P", "Q", "R", "S", "T", "U", "V", "W", "X", "Y", "Z">>
AsciiDigits == <<"0", "1", "2", "3", "4", "5", "6", "7", "8", "9">>
\* a decimal digit outside ASCII (ARABIC-INDIC DIGIT TWO)
ArabicTwo == "ar2"

Range(f) == {f[i] : i \in DOMAIN f}

Letters == Range(LowerCase) \cup Range(UpperCase)
Digits == Range(AsciiDigits)

\* str.isalnum
isalnum(c) == c \in Letters \cup Digits \cup {ArabicTwo}

\* str.lower, one character
LowerChar(c) ==
    IF c \in Range(UpperCase)
    THEN LowerCase[CHOOSE i \in DOMAIN UpperCase : UpperCase[i] = c]
    ELSE c

lower(s) == [i \in 1..Len(s) |-> LowerChar(s[i])]

Whitespace == {" ", "\t", "\n"}

\* str.strip
strip(s) ==
    LET keep == {i \in 1..Len(s) : s[i] \notin Whitespace} IN
    IF keep = {} THEN <<>>
    ELSE SubSeq(s, CHOOSE i \in keep : \A j \in keep : i <= j,
                   CHOOSE i \in keep : \A j \in keep : i >= j)

(***************************************************************************)
(* helpers.sanitize_filename                                               *)
(***************************************************************************)
MAX_FILENAME_LEN == 200

FilePrefix == <<"f", "i", "l", "e", "_">>

SafeChar(c) == IF isalnum(c) \/ c \in {".", "-", "_", " "} THEN c ELSE "_"

ReplaceInvalid(filename) == [i \in 1..Len(filename) |-> SafeChar(filename[i])]

PrefixHidden(safe) ==
    IF safe = <<>> \/ safe[1] = "." THEN FilePrefix \o safe ELSE safe

LimitLength(safe) ==
    IF Len(safe) > MAX_FILENAME_LEN THEN SubSeq(safe, 1, MAX_FILENAME_LEN) ELSE safe

sanitize_filename_NoLimit(filename) == PrefixHidden(ReplaceInvalid(filename))

sanitize_filename_KeepsSeparator(filename) == LimitLength(PrefixHidden(filename))

sanitize_filename(filename) == LimitLength(PrefixHidden(ReplaceInvalid(filename)))

(***************************************************************************)
(* The export directory and pathlib's join, resolved as the OS resolves it *)
(***************************************************************************)
ExportDir == <<"tmp", "tmpexport">>

\* name.split(sep): the pieces of s between the occurrences of sep
SplitOn(s, sep) ==
    LET at == {i \in 1..Len(s) : s[i] = sep}
        n == Cardinality(at)
        \* position of the k-th separator; 0 before the first, Len(s)+1 after the last
        pos(k) == IF k = 0 THEN 0
                  ELSE IF k > n THEN Len(s) + 1
                  ELSE CHOOSE i \in at : Cardinality({j \in at : j < i}) = k - 1
    IN [k \in 1..(n + 1) |-> SubSeq(s, pos(k - 1) + 1, pos(k) - 1)]

RECURSIVE ResolveParts(_, _)
\* walk the components from base: "" and "." stay, ".." goes to the parent
ResolveParts(base, parts) ==
    IF parts = <<>> THEN base
    ELSE LET p == Head(parts) IN
         IF p = <<>> \/ p = <<".">> THEN ResolveParts(base, Tail(parts))
         ELSE IF p = <<".", ".">>
              THEN ResolveParts(IF base = <<>> THEN <<>> ELSE SubSeq(base, 1, Len(base) - 1),
                                Tail(parts))
         ELSE ResolveParts(Append(base, p), Tail(parts))

\* _export_dir / name : an absolute name replaces the directory
JoinPath(dir, name) ==
    IF name # <<>> /\ name[1] = "/"
    THEN ResolveParts(<<>>, SplitOn(name, "/"))
    ELSE ResolveParts(dir, SplitOn(name, "/"))

IsDirectChild(path, dir) ==
    /\ Len(path) = Len(dir) + 1
    /\ SubSeq(path, 1, Len(dir)) = dir

WriteFile(fs, path, content) ==
    [p \in DOMAIN fs \cup {path} |-> IF p = path THEN content ELSE fs[p]]

(***************************************************************************)
(* The names the file-writing tools build from caller-supplied strings     *)
(***************************************************************************)
SearchPrefix == <<"s", "e", "a", "r", "c", "h", "_">>
ResultsSuffix == <<"_", "1", "_", "r", "e", "s", "u", "l", "t", "s", ".", "m", "d">>
EmailPrefix == <<"e", "m", "a", "i", "l", "_">>
ThreadPrefix == <<"t", "h", "r", "e", "a", "d", "_">>
SubjectSuffix == <<"_", "s", "u", "b", ".", "m", "d">>

FileTools == {"download_attachment", "search_emails", "get_emails", "get_thread"}

DesiredName(t, s) ==
    CASE t = "download_attachment" -> s
      [] t = "search_emails" -> SearchPrefix \o s \o ResultsSuffix
      [] t = "get_emails" -> EmailPrefix \o s \o SubjectSuffix
      [] t = "get_thread" -> ThreadPrefix \o s \o SubjectSuffix

(***************************************************************************)
(* Bounds of the sanitizer specification                                   *)
(***************************************************************************)
MaxHead == 3
PadSlack == 2

SanChars == {"a", "1", ".", "-", " ", "/"}
PadChars == {"a", "/"}
PadLens == {0} \cup ((MAX_FILENAME_LEN - 6)..(MAX_FILENAME_LEN + PadSlack))

SanInputs ==
    {h \o Repeat(c, n) : h \in SeqsUpTo(SanChars, MaxHead), c \in PadChars, n \in PadLens}

\* the parts of the state a specification does not use stay at these values
IdleSan == rawName = <<>> /\ safeName = <<>> /\ againName = <<>>
IdleDate == dateParts = <<>> /\ date_str = None /\ dateValid = None
IdleSearch == req = <<>> /\ searchOut = <<>>
IdleBatch == message_ids = <<>> /\ failing = {} /\ batchOut = <<>>
IdleFields ==
    fieldTokens = <<>> /\ fields_param = None /\ requested_fields = {} /\ result_lines = <<>>
IdleBody == message = <<>> /\ bodyText = None
IdleStore == files = <<>> /\ providerCalls = <<>>
IdleThread == thread_id = <<>> /\ thread = <<>> /\ threadOut = <<>>
IdleLife ==
    /\ phase = "idle" /\ authOk = TRUE /\ dirExists = TRUE
    /\ mkdirs = 0 /\ rmdirs = 0 /\ served = 0 /\ handles = {}
    /\ authEnv = <<>> /\ startupOut = <<>>
IdleConc == invocations = <<>> /\ writeLog = <<>>
IdleCfg ==
    /\ environ = <<>> /\ lruCache = <<>> /\ instances = <<>>
    /\ cfgOut = <<>> /\ cfgSeen = <<>>
IdleAtt == attachOut = <<>>
IdleExt == IdleThread /\ IdleLife /\ IdleConc /\ IdleCfg /\ IdleAtt

InitSan ==
    /\ pc = "ready"
    /\ tool \in FileTools
    /\ rawName \in SanInputs
    /\ safeName = <<>>
    /\ againName = <<>>
    /\ IdleExt /\ IdleStore /\ IdleDate /\ IdleSearch /\ IdleBatch /\ IdleFields /\ IdleBody

\* the tool sanitizes the name it built
Sanitize ==
    /\ pc = "ready"
    /\ safeName' = sanitize_filename(DesiredName(tool, rawName))
    /\ pc' = "sanitized"
    /\ UNCHANGED <<extVars, tool, rawName, againName, files, providerCalls, dateVars, searchVars,
                   batchVars, fieldVars, bodyVars>>

\* file_path = _export_dir / filename ; file_path.write_*(...)
WriteArtifact ==
    /\ pc = "sanitized"
    /\ files' = WriteFile(files, JoinPath(ExportDir, safeName), tool)
    /\ pc' = "written"
    /\ UNCHANGED <<extVars, tool, rawName, safeName, againName, providerCalls, dateVars, searchVars,
                   batchVars, fieldVars, bodyVars>>

\* a later request whose desired name is the name already produced
SanitizeAgain ==
    /\ pc = "written"
    /\ againName' = sanitize_filename(safeName)
    /\ pc' = "resanitized"
    /\ UNCHANGED <<extVars, tool, rawName, safeName, files, providerCalls, dateVars, searchVars,
                   batchVars, fieldVars, bodyVars>>

NextSan == Sanitize \/ WriteArtifact \/ SanitizeAgain

SpecSan == InitSan /\ [][NextSan]_vars

AllowedChar(c) == isalnum(c) \/ c \in {".", "-", "_", " "}

\* C7: sanitize_filename is idempotent, and its result is non-empty, does
\* not start with '.', holds only alphanumerics and . - _ space, and has at
\* most 200 characters.
C7_SanitizeIdempotentAndSafe ==
    /\ pc \in {"sanitized", "written", "resanitized"} =>
        /\ safeName # <<>>
        /\ safeName[1] # "."
        /\ \A i \in 1..Len(safeName) : AllowedChar(safeName[i])
        /\ Len(safeName) <= MAX_FILENAME_LEN
    /\ pc = "resanitized" => againName = safeName

\* the prefix and the truncation both applied, and the name was sanitized twice
C7_Witness ==
    /\ pc = "resanitized"
    /\ tool = "download_attachment"
    /\ rawName # <<>> /\ rawName[1] = "."
    /\ Len(rawName) > MAX_FILENAME_LEN
    /\ StartsWith(safeName, FilePrefix)
    /\ Len(safeName) = MAX_FILENAME_LEN

\* C8: the path a tool writes to is a direct child of the export
\* directory: the sanitized name has no path separator and is neither "."
\* nor "..".
C8_WritesStayInExportDir ==
    /\ \A p \in DOMAIN files : IsDirectChild(p, ExportDir)
    /\ pc \in {"sanitized", "written", "resanitized"} =>
        /\ \A i \in 1..Len(safeName) : safeName[i] # "/"
        /\ safeName # <<".">>
        /\ safeName # <<".", ".">>

\* a file was written for a caller-supplied name that climbs out of the directory
C8_Witness ==
    /\ pc = "written"
    /\ tool = "download_attachment"
    /\ StartsWith(rawName, <<".", ".", "/">>)
    /\ DOMAIN files = {Append(ExportDir, safeName)}

(***************************************************************************)
(* validate_date_format (helpers.py and mcp_gmail/server.py hold the same  *)
(* function)                                                               *)
(***************************************************************************)
\* \d of the re module matches every Unicode decimal digit
ReDigit(c) == c \in Digits \cup {ArabicTwo}

\* re.match(r'^\d{4}/\d{2}/\d{2}$', s): $ also matches before a final newline
MatchesDatePattern(s) ==
    LET core == IF Len(s) = 11 /\ s[11] = "\n" THEN SubSeq(s, 1, 10) ELSE s IN
    /\ Len(core) = 10
    /\ \A i \in {1, 2, 3, 4, 6, 7, 9, 10} : ReDigit(core[i])
    /\ core[5] = "/" /\ core[8] = "/"

DigitValue(c) == (CHOOSE i \in DOMAIN AsciiDigits : AsciiDigits[i] = c) - 1

RECURSIVE ToInt(_)
ToInt(s) == IF s = <<>> THEN 0 ELSE 10 * ToInt(SubSeq(s, 1, Len(s) - 1)) + DigitValue(s[Len(s)])

IsLeapYear(y) == y % 4 = 0 /\ (y % 100 # 0 \/ y % 400 = 0)

DaysInMonth(y, m) ==
    IF m = 2 THEN (IF IsLeapYear(y) THEN 29 ELSE 28)
    ELSE IF m \in {4, 6, 9, 11} THEN 30 ELSE 31

\* datetime.strptime(s, '%Y/%m/%d') returns (TRUE) or raises ValueError (FALSE):
\* the directives match ASCII digits only, the whole string must be consumed,
\* %m is 01..12, %d is 01..31, and the date must exist
StrptimeAccepts(s) ==
    /\ Len(s) = 10
    /\ \A i \in {1, 2, 3, 4, 6, 7, 9, 10} : s[i] \in Digits
    /\ s[5] = "/" /\ s[8] = "/"
    /\ LET y == ToInt(SubSeq(s, 1, 4))
           m == ToInt(SubSeq(s, 6, 7))
           d == ToInt(SubSeq(s, 9, 10))
       IN /\ m \in 1..12
          /\ d \in 1..31
          /\ y >= 1
          /\ d <= DaysInMonth(y, m)

validate_date_format_NoCalendarCheck(s) ==
    IF ~Truthy(s) THEN TRUE ELSE MatchesDatePattern(s) /\ s[Len(s)] # "\n"

validate_date_format(s) ==
    IF ~Truthy(s) THEN TRUE
    ELSE IF ~MatchesDatePattern(s) THEN FALSE
    ELSE StrptimeAccepts(s)

(***************************************************************************)
(* The inputs of the date validator: a year, a month and a day written in  *)
(* one of several shapes                                                   *)
(***************************************************************************)
MaxMonth == 13
MaxDay == 32

DateYears == {0, 1, 1900, 2000, 2023, 2024, 9999}
DateShapes == {"none", "empty", "ymd", "dashes", "one_digit_month", "final_newline",
               "extra_digit", "leading_space", "letter_in_year", "unicode_digit"}

\* n written in exactly w decimal digits
RECURSIVE Digits0(_, _)
Digits0(n, w) == IF w = 0 THEN <<>> ELSE Append(Digits0(n \div 10, w - 1), AsciiDigits[(n % 10) + 1])

WriteDate(p) ==
    LET y == Digits0(p.y, 4)
        m == Digits0(p.m, 2)
        d == Digits0(p.d, 2)
        ymd == y \o <<"/">> \o m \o <<"/">> \o d
    IN CASE p.shape = "none" -> None
         [] p.shape = "empty" -> <<>>
         [] p.shape = "ymd" -> ymd
         [] p.shape = "dashes" -> y \o <<"-">> \o m \o <<"-">> \o d
         [] p.shape = "one_digit_month" -> y \o <<"/">> \o Digits0(p.m, 1) \o <<"/">> \o d
         [] p.shape = "final_newline" -> ymd \o <<"\n">>
         [] p.shape = "extra_digit" -> ymd \o <<"0">>
         [] p.shape = "leading_space" -> <<" ">> \o ymd
         [] p.shape = "letter_in_year" -> <<"2", "0", "x", "4", "/">> \o m \o <<"/">> \o d
         [] p.shape = "unicode_digit" -> <<ArabicTwo>> \o Tail(ymd)

InitDate ==
    /\ pc = "ready"
    /\ tool = "validate_date_format"
    /\ dateParts \in [shape : DateShapes, y : DateYears, m : 0..MaxMonth, d : 0..MaxDay]
    /\ date_str = WriteDate(dateParts)
    /\ dateValid = None
    /\ IdleExt /\ IdleStore /\ IdleSan /\ IdleSearch /\ IdleBatch /\ IdleFields /\ IdleBody

ValidateDate ==
    /\ pc = "ready"
    /\ tool = "validate_date_format"
    /\ dateValid' = validate_date_format(date_str)
    /\ pc' = "done"
    /\ UNCHANGED <<extVars, tool, files, providerCalls, dateParts, date_str, sanVars, searchVars,
                   batchVars, fieldVars, bodyVars>>

NextDate == ValidateDate

SpecDate == InitDate /\ [][NextDate]_vars

\* the day exists in the calendar (years 1..9999)
RealCalendarDate(y, m, d) ==
    /\ y \in 1..9999
    /\ \/ m \in {1, 3, 5, 7, 8, 10, 12} /\ d \in 1..31
       \/ m \in {4, 6, 9, 11} /\ d \in 1..30
       \/ m = 2 /\ d \in 1..28
       \/ m = 2 /\ d = 29 /\ y % 4 = 0 /\ (y % 100 # 0 \/ y % 400 = 0)

IsDate(p, y, m, d) == p.shape = "ymd" /\ p.y = y /\ p.m = m /\ p.d = d

B64Alphabet == UpperCase \o LowerCase \o AsciiDigits \o <<"-", "_">>

B64Value(c) == (CHOOSE i \in DOMAIN B64Alphabet : B64Alphabet[i] = c) - 1

\* the bytes of a padded base64url string: every four characters carry 24 bits
urlsafe_b64decode(data) ==
    LET d == SelectSeq(data, LAMBDA c : c # "=")
        sextet(i) == IF i <= Len(d) THEN B64Value(d[i]) ELSE 0
        group(g) == sextet(4 * g + 1) * 262144 + sextet(4 * g + 2) * 4096
                    + sextet(4 * g + 3) * 64 + sextet(4 * g + 4)
        byte(j) == LET v == group(j \div 3) IN
                   CASE j % 3 = 0 -> v \div 65536
                     [] j % 3 = 1 -> (v \div 256) % 256
                     [] j % 3 = 2 -> v % 256
    IN [k \in 1..((Len(d) * 6) \div 8) |-> byte(k - 1)]

\* the ASCII characters 32..126, in code order
Printable == <<" ", "!", "dquote", "#", "$", "%", "&", "'", "(", ")", "*", "+",
               ",", "-", ".", "/", "0", "1", "2", "3", "4", "5", "6", "7",
               "8", "9", ":", ";", "<", "=", ">", "?", "@", "A", "B", "C",
               "D", "E", "F", "G", "H", "I", "J", "K", "L", "M", "N", "O",
               "P", "Q", "R", "S", "T", "U", "V", "W", "X", "Y", "Z", "[",
               "backslash", "]", "^", "_", "backtick", "a", "b", "c", "d", "e", "f", "g",
               "h", "i", "j", "k", "l", "m", "n", "o", "p", "q", "r", "s",
               "t", "u", "v", "w", "x", "y", "z", "{", "|", "}", "~">>

\* one byte of UTF-8 text below 128
AsciiChar(b) == IF b = 10 THEN "\n" ELSE Printable[b - 31]

\* bytes.decode() over ASCII text
decode(bytes) == [i \in 1..Len(bytes) |-> AsciiChar(bytes[i])]

DecodeData(data) == decode(urlsafe_b64decode(data))

(***************************************************************************)
(* gmail.parse_message_body                                                *)
(***************************************************************************)
RECURSIVE get_text_part(_)
get_text_part(parts) ==
    IF parts = <<>> THEN <<>>
    ELSE LET part == Head(parts)
             text == IF part.mimeType = "text/plain"
                     THEN (IF "data" \in DOMAIN part.body THEN DecodeData(part.body.data)
                           ELSE <<>>)
                     ELSE IF "parts" \in DOMAIN part THEN get_text_part(part.parts)
                     ELSE <<>>
         IN text \o get_text_part(Tail(parts))

RECURSIVE get_text_part_AnyLeaf(_)
\* a traversal that takes the data of every leaf, whatever its MIME type
get_text_part_AnyLeaf(parts) ==
    IF parts = <<>> THEN <<>>
    ELSE LET part == Head(parts)
             text == IF "parts" \in DOMAIN part THEN get_text_part_AnyLeaf(part.parts)
                     ELSE IF "data" \in DOMAIN part.body THEN DecodeData(part.body.data)
                     ELSE <<>>
         IN text \o get_text_part_AnyLeaf(Tail(parts))

parse_message_body_AnyLeaf(msg) ==
    IF "parts" \in DOMAIN msg.payload
    THEN get_text_part_AnyLeaf(msg.payload.parts)
    ELSE IF "data" \in DOMAIN msg.payload.body
         THEN DecodeData(msg.payload.body.data)
         ELSE <<>>

parse_message_body(msg) ==
    IF "parts" \in DOMAIN msg.payload
    THEN get_text_part(msg.payload.parts)
    ELSE IF "data" \in DOMAIN msg.payload.body
         THEN DecodeData(msg.payload.body.data)
         ELSE <<>>

(***************************************************************************)
(* Provider messages: a payload is a leaf or a container of parts          *)
(***************************************************************************)
TextHi == <<"h", "i">>
TextOk == <<"o", "k">>
TextHtml == <<"<", "b", ">">>

\* what the provider sends for each text (base64url, padded)
DataHi == <<"a", "G", "k", "=">>
DataOk == <<"b", "2", "s", "=">>
DataHtml == <<"P", "G", "I", "-">>

PlainHi == [mimeType |-> "text/plain", filename |-> <<>>, body |-> [size |-> 2, data |-> DataHi]]
PlainOk == [mimeType |-> "text/plain", filename |-> <<>>, body |-> [size |-> 2, data |-> DataOk]]
HtmlLeaf == [mimeType |-> "text/html", filename |-> <<>>, body |-> [size |-> 3, data |-> DataHtml]]
PdfLeaf == [mimeType |-> "application/pdf", filename |-> <<"a", ".", "p", "d", "f">>,
            body |-> [size |-> 9, attachmentId |-> "att1"]]
TxtAttachment == [mimeType |-> "text/plain", filename |-> <<"n", ".", "t", "x", "t">>,
                  body |-> [size |-> 5, attachmentId |-> "att2"]]

Leaves == {PlainHi, PlainOk, HtmlLeaf, PdfLeaf, TxtAttachment}

Container(ps) ==
    [mimeType |-> "multipart/mixed", filename |-> <<>>, body |-> [size |-> 0], parts |-> ps]

MaxNodes == 4

RECURSIVE TreesOf(_), ForestsOf(_)
\* the parts with exactly n nodes
TreesOf(n) ==
    IF n = 1 THEN Leaves \cup {Container(<<>>)}
    ELSE {Container(f) : f \in ForestsOf(n - 1)}
\* the part lists with exactly n nodes in all
ForestsOf(n) ==
    IF n = 0 THEN {<<>>}
    ELSE UNION {{<<t>> \o f : t \in TreesOf(k), f \in ForestsOf(n - k)} : k \in 1..n}

Forests == UNION {ForestsOf(n) : n \in 0..MaxNodes}

SubjectHeader == [name |-> "Subject", value |-> <<"s", "u", "b">>]
FromHeader == [name |-> "From", value |-> <<"a", "@", "b">>]
ToHeader == [name |-> "To", value |-> <<"c", "@", "d">>]
DateHeader == [name |-> "Date", value |-> <<"T", "u", "e">>]

Payload(headers, part) == [h \in {"headers"} \cup DOMAIN part |->
                              IF h = "headers" THEN headers ELSE part[h]]

Payloads(headers) ==
    {Payload(headers, l) : l \in Leaves} \cup {Payload(headers, Container(f)) : f \in Forests}

MsgId1 == <<"m", "1">>

InitBody ==
    /\ pc = "ready"
    /\ tool = "parse_message_body"
    /\ message \in {[id |-> MsgId1, threadId |-> <<"t", "1">>, labelIds |-> <<>>, payload |-> p] :
                        p \in Payloads(<<SubjectHeader>>)}
    /\ bodyText = None
    /\ IdleExt /\ IdleStore /\ IdleSan /\ IdleDate /\ IdleSearch /\ IdleBatch /\ IdleFields

ParseBody ==
    /\ pc = "ready"
    /\ tool = "parse_message_body"
    /\ bodyText' = parse_message_body(message)
    /\ pc' = "done"
    /\ UNCHANGED <<extVars, tool, files, providerCalls, message, sanVars, dateVars, searchVars,
                   batchVars, fieldVars>>

NextBody == ParseBody

SpecBody == InitBody /\ [][NextBody]_vars

RECURSIVE LeavesInOrder(_)
\* the leaves of a part list, depth-first and left to right
LeavesInOrder(parts) ==
    IF parts = <<>> THEN <<>>
    ELSE (IF "parts" \in DOMAIN Head(parts) THEN LeavesInOrder(Head(parts).parts)
          ELSE <<Head(parts)>>) \o LeavesInOrder(Tail(parts))

\* the text the provider encoded in a leaf ("" for a leaf that carries no data)
TextOfLeaf(leaf) ==
    IF "data" \notin DOMAIN leaf.body THEN <<>>
    ELSE CASE leaf.body.data = DataHi -> TextHi
           [] leaf.body.data = DataOk -> TextOk
           [] leaf.body.data = DataHtml -> TextHtml

PlainTextInOrder(parts) ==
    LET plain == SelectSeq(LeavesInOrder(parts), LAMBDA l : l.mimeType = "text/plain")
    IN Flatten([i \in 1..Len(plain) |-> TextOfLeaf(plain[i])])

\* C10: for a payload that is a part tree, parse_message_body returns the
\* texts of exactly the text/plain leaves, depth-first and left to right;
\* with one text/plain and one text/html leaf it returns the plain text only.
C10_BodyIsPlainLeavesInOrder ==
    (pc = "done" /\ "parts" \in DOMAIN message.payload) =>
        /\ bodyText = PlainTextInOrder(message.payload.parts)
        /\ message.payload.parts = <<PlainHi, HtmlLeaf>> => bodyText = TextHi
        /\ message.payload.parts = <<HtmlLeaf, PlainHi>> => bodyText = TextHi

\* a nested tree with two plain leaves around an html leaf was extracted
C10_Witness ==
    /\ pc = "done"
    /\ "parts" \in DOMAIN message.payload
    /\ message.payload.parts = <<Container(<<PlainOk, HtmlLeaf>>), PlainHi>>
    /\ bodyText = TextOk \o TextHi

(***************************************************************************)
(* The field projector: parse_message_fields and                           *)
(* format_message_with_fields                                              *)
(***************************************************************************)
EMAIL_PREVIEW_LENGTH == 200

AVAILABLE_MESSAGE_FIELDS ==
    {"id", "thread_id", "subject", "from", "to", "date", "body_preview", "body", "labels",
     "has_attachments", "web_url"}

DEFAULT_MESSAGE_FIELDS == {"id", "subject", "from", "date"}

\* the spelling of each field name
FieldText ==
    [id |-> <<"i", "d">>,
     thread_id |-> <<"t", "h", "r", "e", "a", "d", "_", "i", "d">>,
     subject |-> <<"s", "u", "b", "j", "e", "c", "t">>,
     from |-> <<"f", "r", "o", "m">>,
     to |-> <<"t", "o">>,
     date |-> <<"d", "a", "t", "e">>,
     body_preview |-> <<"b", "o", "d", "y", "_", "p", "r", "e", "v", "i", "e", "w">>,
     body |-> <<"b", "o", "d", "y">>,
     labels |-> <<"l", "a", "b", "e", "l", "s">>,
     has_attachments |-> <<"h", "a", "s", "_", "a", "t", "t", "a", "c", "h", "m", "e", "n", "t", "s">>,
     web_url |-> <<"w", "e", "b", "_", "u", "r", "l">>]

AllSentinel == <<"a", "l", "l">>

RECURSIVE Join(_, _)
\* sep.join(pieces)
Join(pieces, sep) ==
    IF pieces = <<>> THEN <<>>
    ELSE IF Len(pieces) = 1 THEN pieces[1]
    ELSE pieces[1] \o sep \o Join(Tail(pieces), sep)

\* set(field.strip().lower() for field in fields_param.split(',') if field.strip())
RequestedNames(param) ==
    LET entries == SplitOn(param, ",") IN
    {lower(strip(entries[i])) : i \in {j \in 1..Len(entries) : strip(entries[j]) # <<>>}}

parse_message_fields_NoFallback(param) ==
    IF param = None THEN DEFAULT_MESSAGE_FIELDS
    ELSE IF lower(param) = AllSentinel THEN AVAILABLE_MESSAGE_FIELDS
    ELSE {f \in AVAILABLE_MESSAGE_FIELDS : FieldText[f] \in RequestedNames(param)}

parse_message_fields(param) ==
    IF param = None THEN DEFAULT_MESSAGE_FIELDS
    ELSE IF lower(param) = AllSentinel THEN AVAILABLE_MESSAGE_FIELDS
    ELSE LET requested == RequestedNames(param)
             valid_fields == {f \in AVAILABLE_MESSAGE_FIELDS : FieldText[f] \in requested}
         IN IF valid_fields # {} THEN valid_fields ELSE DEFAULT_MESSAGE_FIELDS

\* get_headers_dict(message).get(name, default): a later header of the same name wins
HeaderGet(msg, name, default) ==
    LET hs == msg.payload.headers
        at == {i \in 1..Len(hs) : hs[i].name = name}
    IN IF at = {} THEN default ELSE hs[CHOOSE i \in at : \A j \in at : j <= i].value

Unknown == <<"U", "n", "k", "n", "o", "w", "n">>
NoSubject == <<"N", "o", " ", "S", "u", "b", "j", "e", "c", "t">>
UnknownDate == <<"U", "n", "k", "n", "o", "w", "n", " ", "D", "a", "t", "e">>
WebUrlPrefix == <<"h", "t", "t", "p", "s", ":", "/", "/", "m", "a", "i", "l", ".", "g", "o", "o", "g", "l", "e", ".", "c", "o", "m", "/", "m", "a", "i", "l", "/", "u", "/", "0", "/", "#", "a", "l", "l", "/">>

get_gmail_web_url(message_id) == WebUrlPrefix \o message_id

\* the scan of the payload's immediate parts for a filename
ShallowHasAttachments(msg) ==
    /\ "parts" \in DOMAIN msg.payload
    /\ \E i \in 1..Len(msg.payload.parts) : msg.payload.parts[i].filename # <<>>

\* str.replace('\n', ' ')
ReplaceNewlines(s) == [i \in 1..Len(s) |-> IF s[i] = "\n" THEN " " ELSE s[i]]

Ellipsis == <<".", ".", ".">>

\* a preview that marks a body of exactly EMAIL_PREVIEW_LENGTH characters as cut
BodyPreview_EllipsisAtLimit(body) ==
    LET cut == SubSeq(body, 1, IF Len(body) < EMAIL_PREVIEW_LENGTH THEN Len(body)
                                ELSE EMAIL_PREVIEW_LENGTH)
        preview == strip(ReplaceNewlines(cut))
    IN IF Len(body) >= EMAIL_PREVIEW_LENGTH THEN preview \o Ellipsis ELSE preview

BodyPreview(body) ==
    LET cut == SubSeq(body, 1, IF Len(body) < EMAIL_PREVIEW_LENGTH THEN Len(body)
                                ELSE EMAIL_PREVIEW_LENGTH)
        preview == strip(ReplaceNewlines(cut))
    IN IF Len(body) > EMAIL_PREVIEW_LENGTH THEN preview \o Ellipsis ELSE preview

Line(field, label, value) == <<[field |-> field, label |-> label, value |-> value]>>

\* the line (or no line) each field contributes
FieldLine(msg, message_id, fields, f) ==
    IF f \notin fields THEN <<>>
    ELSE CASE f = "id" -> Line(f, "Message ID", message_id)
           [] f = "thread_id" ->
                IF msg.threadId # <<>> THEN Line(f, "Thread ID", msg.threadId) ELSE <<>>
           [] f = "from" -> Line(f, "From", HeaderGet(msg, "From", Unknown))
           [] f = "to" -> Line(f, "To", HeaderGet(msg, "To", Unknown))
           [] f = "subject" -> Line(f, "Subject", HeaderGet(msg, "Subject", NoSubject))
           [] f = "date" -> Line(f, "Date", HeaderGet(msg, "Date", UnknownDate))
           [] f = "labels" ->
                IF msg.labelIds # <<>>
                THEN Line(f, "Labels", Join(msg.labelIds, <<",", " ">>)) ELSE <<>>
           [] f = "has_attachments" -> Line(f, "Has Attachments", ShallowHasAttachments(msg))
           [] f = "web_url" -> Line(f, "Web URL", get_gmail_web_url(message_id))
           [] f = "body_preview" -> Line(f, "Preview", BodyPreview(parse_message_body(msg)))
           [] f = "body" -> Line(f, "Body", parse_message_body(msg))

\* the order in which format_message_with_fields tests the fields
ProjectorOrder ==
    <<"id", "thread_id", "from", "to", "subject", "date", "labels", "has_attachments",
      "web_url", "body_preview", "body">>

\* the order in which the fields are listed in the tool's description
EnumerationOrder ==
    <<"id", "thread_id", "subject", "from", "to", "date", "body_preview", "body", "labels",
      "has_attachments", "web_url">>

LinesInOrder(msg, message_id, fields, order) ==
    Flatten([i \in 1..Len(order) |-> FieldLine(msg, message_id, fields, order[i])])

format_message_with_fields_EnumerationOrder(msg, message_id, fields) ==
    LinesInOrder(msg, message_id, fields, EnumerationOrder)

\* a projector that writes the Thread ID line of every message
format_message_with_fields_ThreadIdAlways(msg, message_id, fields) ==
    Flatten([i \in 1..Len(ProjectorOrder) |->
               IF ProjectorOrder[i] = "thread_id" /\ "thread_id" \in fields
               THEN Line("thread_id", "Thread ID", msg.threadId)
               ELSE FieldLine(msg, message_id, fields, ProjectorOrder[i])])

format_message_with_fields(msg, message_id, fields) ==
    LinesInOrder(msg, message_id, fields, ProjectorOrder)

(***************************************************************************)
(* The inputs of the field projector                                       *)
(***************************************************************************)
MaxEntries == 2

\* an entry of the fields argument: its text, and the field it names
Entry(text, name) == [text |-> text, name |-> name]

FieldEntries ==
    {Entry(FieldText[f], f) : f \in AVAILABLE_MESSAGE_FIELDS} \cup
    {Entry(<<"I", "D">>, "id"), Entry(<<" ", "F", "r", "o", "m", " ">>, "from"), Entry(<<"S", "u", "b", "j", "e", "c", "t">>, "subject"),
     Entry(<<"b", "o", "g", "u", "s">>, "unknown"), Entry(<<>>, "unknown"), Entry(<<" ">>, "unknown"),
     Entry(<<"a", "l", "l">>, "all"), Entry(<<"A", "L", "L">>, "all"), Entry(<<"A", "l", "l">>, "all"),
     Entry(<<" ", "a", "l", "l">>, "unknown")}

\* the argument as the caller writes it: absent, or the entries joined by commas
WriteFields(given) ==
    IF given.absent THEN None
    ELSE Join([i \in 1..Len(given.entries) |-> given.entries[i].text], <<",">>)

LabelInbox == <<"I", "N", "B", "O", "X">>
LabelUnread == <<"U", "N", "R", "E", "A", "D">>

MsgFull ==
    [id |-> MsgId1, threadId |-> <<"t", "1">>, labelIds |-> <<LabelInbox, LabelUnread>>,
     payload |-> Payload(<<SubjectHeader, FromHeader, ToHeader, DateHeader>>,
                         Container(<<PlainHi, PdfLeaf>>))]
MsgBare ==
    [id |-> MsgId1, threadId |-> <<>>, labelIds |-> <<>>,
     payload |-> Payload(<<>>, HtmlLeaf)]
MsgNested ==
    [id |-> MsgId1, threadId |-> <<"t", "1">>, labelIds |-> <<LabelInbox>>,
     payload |-> Payload(<<SubjectHeader, FromHeader>>,
                         Container(<<Container(<<PlainOk, PdfLeaf>>), HtmlLeaf>>))]

FieldMessages == {MsgFull, MsgBare, MsgNested}

InitFields ==
    /\ pc = "ready"
    /\ tool = "format_message_with_fields"
    /\ fieldTokens \in {[absent |-> TRUE, entries |-> <<>>]} \cup
                       {[absent |-> FALSE, entries |-> es] : es \in SeqsUpTo(FieldEntries, MaxEntries)}
    /\ fields_param = WriteFields(fieldTokens)
    /\ requested_fields = {}
    /\ result_lines = <<>>
    /\ message \in FieldMessages
    /\ bodyText = None
    /\ IdleExt /\ IdleStore /\ IdleSan /\ IdleDate /\ IdleSearch /\ IdleBatch

\* requested_fields = parse_message_fields(fields)
ParseFields ==
    /\ pc = "ready"
    /\ tool = "format_message_with_fields"
    /\ requested_fields' = parse_message_fields(fields_param)
    /\ pc' = "parsed"
    /\ UNCHANGED <<extVars, tool, files, providerCalls, fieldTokens, fields_param, result_lines,
                   bodyVars, sanVars, dateVars, searchVars, batchVars>>

\* format_message_with_fields(message, msg_id, requested_fields)
FormatMessage ==
    /\ pc = "parsed"
    /\ result_lines' = format_message_with_fields(message, message.id, requested_fields)
    /\ pc' = "done"
    /\ UNCHANGED <<extVars, tool, files, providerCalls, fieldTokens, fields_param, requested_fields,
                   bodyVars, sanVars, dateVars, searchVars, batchVars>>

NextFields == ParseFields \/ FormatMessage

SpecFields == InitFields /\ [][NextFields]_vars

PositionIn(order, f) == CHOOSE i \in 1..Len(order) : order[i] = f

\* the lines follow the given order of the fields
LinesFollow(order) ==
    \A i, j \in 1..Len(result_lines) :
        i < j => PositionIn(order, result_lines[i].field) < PositionIn(order, result_lines[j].field)

\* C5 as stated: the lines appear in the order id, thread_id, subject,
\* from, to, date, body_preview, body, labels, has_attachments, web_url.
C5_LinesInEnumerationOrder == pc = "done" => LinesFollow(EnumerationOrder)

\* C5, amended: whatever order the caller listed the fields in, the lines
\* appear in the projector's own fixed order id, thread_id, from, to,
\* subject, date, labels, has_attachments, web_url, body_preview, body, and
\* every line is for a requested field.
C5_LinesInProjectorOrder ==
    pc = "done" =>
        /\ LinesFollow(ProjectorOrder)
        /\ \A i \in 1..Len(result_lines) : result_lines[i].field \in requested_fields

\* the caller listed subject before from, and the From line came out first
C5_Witness ==
    /\ pc = "done"
    /\ ~fieldTokens.absent
    /\ Len(fieldTokens.entries) = 2
    /\ fieldTokens.entries[1].name = "subject" /\ fieldTokens.entries[2].name = "from"
    /\ Len(result_lines) = 2
    /\ result_lines[1].field = "from" /\ result_lines[2].field = "subject"

\* the fields the entries name, read off the entries the argument was written from
NamedFields(entries) == {entries[i].name : i \in 1..Len(entries)} \cap AVAILABLE_MESSAGE_FIELDS

\* C6: parse_message_fields returns a non-empty subset of the enumeration:
\* the default set for an absent argument, the whole enumeration for "all" in
\* any letter case, otherwise the known names among the entries, and the
\* default set when no entry is a known name.
C6_FieldSetNonEmptyAndAsRequested ==
    pc \in {"parsed", "done"} =>
        /\ requested_fields # {}
        /\ requested_fields \subseteq AVAILABLE_MESSAGE_FIELDS
        /\ fieldTokens.absent => requested_fields = DEFAULT_MESSAGE_FIELDS
        /\ ~fieldTokens.absent =>
            IF Len(fieldTokens.entries) = 1 /\ fieldTokens.entries[1].name = "all"
            THEN requested_fields = AVAILABLE_MESSAGE_FIELDS
            ELSE IF NamedFields(fieldTokens.entries) # {}
            THEN requested_fields = NamedFields(fieldTokens.entries)
            ELSE requested_fields = DEFAULT_MESSAGE_FIELDS

\* an argument whose entries are all unknown fell back to the default set
C6_Witness ==
    /\ pc = "parsed"
    /\ ~fieldTokens.absent
    /\ Len(fieldTokens.entries) = 2
    /\ \A i \in 1..2 :
          fieldTokens.entries[i].name = "unknown" /\ fieldTokens.entries[i].text # <<>>
    /\ requested_fields = DEFAULT_MESSAGE_FIELDS

(***************************************************************************)
(* gmail.search_messages: the query builder                                *)
(***************************************************************************)
\* labels=None, distinct from every list of labels
NoLabels == <<None>>

IsRead == <<"i", "s", ":", "r", "e", "a", "d">>
IsUnread == <<"i", "s", ":", "u", "n", "r", "e", "a", "d">>
LabelKey == <<"l", "a", "b", "e", "l", ":">>
FromKey == <<"f", "r", "o", "m", ":">>
ToKey == <<"t", "o", ":">>
SubjectKey == <<"s", "u", "b", "j", "e", "c", "t", ":">>
AfterKey == <<"a", "f", "t", "e", "r", ":">>
BeforeKey == <<"b", "e", "f", "o", "r", "e", ":">>
HasAttachment == <<"h", "a", "s", ":", "a", "t", "t", "a", "c", "h", "m", "e", "n", "t">>
IsStarred == <<"i", "s", ":", "s", "t", "a", "r", "r", "e", "d">>
IsImportant == <<"i", "s", ":", "i", "m", "p", "o", "r", "t", "a", "n", "t">>
InTrash == <<"i", "n", ":", "t", "r", "a", "s", "h">>

StatusRead == <<"r", "e", "a", "d">>
StatusUnread == <<"u", "n", "r", "e", "a", "d">>

\* query_parts after the read-status and label blocks
StatusAndLabelParts(a) ==
    (IF a.read_status = None THEN <<>>
     ELSE IF a.read_status = StatusRead THEN <<IsRead>>
     ELSE IF a.read_status = StatusUnread THEN <<IsUnread>>
     ELSE <<>>)
    \o (IF a.labels # NoLabels /\ a.labels # <<>>
        THEN [i \in 1..Len(a.labels) |-> LabelKey \o a.labels[i]]
        ELSE <<>>)

\* query_parts added by the sender, recipient, subject and date blocks
AddressAndDateParts(a) ==
    (IF Truthy(a.from_email) THEN <<FromKey \o a.from_email>> ELSE <<>>)
    \o (IF Truthy(a.to_email) THEN <<ToKey \o a.to_email>> ELSE <<>>)
    \o (IF Truthy(a.subject) THEN <<SubjectKey \o a.subject>> ELSE <<>>)
    \o (IF Truthy(a.after) THEN <<AfterKey \o a.after>> ELSE <<>>)
    \o (IF Truthy(a.before) THEN <<BeforeKey \o a.before>> ELSE <<>>)

\* a flag is "None", "False" or "True"; `flag is not None and flag`
FlagSet(flag) == flag # "None" /\ flag = "True"

FlagParts(a) ==
    (IF FlagSet(a.has_attachment) THEN <<HasAttachment>> ELSE <<>>)
    \o (IF FlagSet(a.is_starred) THEN <<IsStarred>> ELSE <<>>)
    \o (IF FlagSet(a.is_important) THEN <<IsImportant>> ELSE <<>>)
    \o (IF FlagSet(a.in_trash) THEN <<InTrash>> ELSE <<>>)

\* a builder that emits has:attachment whenever the flag is given at all
BuildQuery_AttachmentWhenGiven(a) ==
    Join(StatusAndLabelParts(a) \o AddressAndDateParts(a)
         \o (IF a.has_attachment # "None" THEN <<HasAttachment>> ELSE <<>>)
         \o (IF FlagSet(a.is_starred) THEN <<IsStarred>> ELSE <<>>)
         \o (IF FlagSet(a.is_important) THEN <<IsImportant>> ELSE <<>>)
         \o (IF FlagSet(a.in_trash) THEN <<InTrash>> ELSE <<>>), <<" ">>)

\* query = ' '.join(query_parts)
BuildQuery(a) ==
    Join(StatusAndLabelParts(a) \o AddressAndDateParts(a) \o FlagParts(a), <<" ">>)

\* service.users().messages().list(q=query or '')
ListCall(query) == [op |-> "messages.list", q |-> IF Truthy(query) THEN query ELSE <<>>]
GetCall(id) == [op |-> "messages.get", id |-> id]

(***************************************************************************)
(* The mailbox the provider serves                                         *)
(***************************************************************************)
MsgId2 == <<"m", "2">>
MsgId3 == <<"m", "3">>
MailboxIds == <<MsgId1, MsgId2, MsgId3>>

WithId(msg, id) == [msg EXCEPT !.id = id]

Mailbox(id) ==
    CASE id = MsgId1 -> WithId(MsgFull, id)
      [] id = MsgId2 -> WithId(MsgBare, id)
      [] OTHER -> WithId(MsgNested, id)

MaxMatches == 1

\* the lists of matches the provider may answer a search with
ProviderMatches == {SubSeq(MailboxIds, 1, n) : n \in 0..MaxMatches}

(***************************************************************************)
(* The search_emails tools                                                 *)
(***************************************************************************)
\* an exclusivity check that forgets the label parameter
ExplicitParamsGiven_WithoutLabel(r) ==
    \/ r.from_email # None \/ r.to_email # None \/ r.subject # None
    \/ r.has_attachment \notin {"None", "False"}
    \/ r.read_status # None \/ r.after_date # None \/ r.before_date # None

\* any(param is not None and param is not False for param in explicit_params)
ExplicitParamsGiven(r) ==
    \/ r.from_email # None \/ r.to_email # None \/ r.subject # None
    \/ r.has_attachment \notin {"None", "False"}
    \/ r.read_status # None \/ r.after_date # None \/ r.before_date # None
    \/ r.label # None

\* a validation that checks the lower bound only
SearchRefusal_AfterDateOnly(r) ==
    IF Truthy(r.after_date) /\ ~validate_date_format(r.after_date) THEN "after_date"
    ELSE IF Truthy(r.gmail_query) /\ ExplicitParamsGiven(r) THEN "both_forms"
    ELSE "ok"

\* the ToolError the request is refused with, or "ok"
SearchRefusal(r) ==
    IF Truthy(r.after_date) /\ ~validate_date_format(r.after_date) THEN "after_date"
    ELSE IF Truthy(r.before_date) /\ ~validate_date_format(r.before_date) THEN "before_date"
    ELSE IF Truthy(r.gmail_query) /\ ExplicitParamsGiven(r) THEN "both_forms"
    ELSE "ok"

AfterDateName == <<"a", "f", "t", "e", "r", "_", "d", "a", "t", "e">>
BeforeDateName == <<"b", "e", "f", "o", "r", "e", "_", "d", "a", "t", "e">>
NotInRequiredFormat == <<" ", "i", "s", " ", "n", "o", "t", " ", "i", "n", " ", "t", "h", "e", " ", "r", "e", "q", "u", "i", "r", "e", "d", " ", "f", "o", "r", "m", "a", "t", " ", "Y", "Y", "Y", "Y", "/", "M", "M", "/", "D", "D">>
\* the sentence both servers open that message with
CannotUseBoth == <<"C", "a", "n", "n", "o", "t", " ", "u", "s", "e", " ", "b", "o", "t", "h", " ", "e", "x", "p", "l", "i", "c", "i", "t", " ", "p", "a", "r", "a", "m", "e", "t", "e", "r", "s", " ", "a", "n", "d", " ", "g", "m", "a", "i", "l", "_", "q", "u", "e", "r", "y", " ", "t", "o", "g", "e", "t", "h", "e", "r", ".">>

\* the message of the ToolError (of a refusal of both forms, its opening
\* sentence)
RefusalText(r) ==
    CASE SearchRefusal(r) = "after_date" ->
           AfterDateName \o <<" ", "'">> \o r.after_date \o <<"'">> \o NotInRequiredFormat
      [] SearchRefusal(r) = "before_date" ->
           BeforeDateName \o <<" ", "'">> \o r.before_date \o <<"'">> \o NotInRequiredFormat
      [] OTHER -> CannotUseBoth

\* the arguments search_emails passes to search_messages
StructuredArgs(r) ==
    [read_status |-> r.read_status,
     labels |-> IF Truthy(r.label) THEN <<r.label>> ELSE NoLabels,
     from_email |-> r.from_email, to_email |-> r.to_email, subject |-> r.subject,
     after |-> r.after_date, before |-> r.before_date,
     has_attachment |-> r.has_attachment,
     is_starred |-> "None", is_important |-> "None", in_trash |-> "None"]

\* the query the search is run with
SearchQuery(r) == IF Truthy(r.gmail_query) THEN r.gmail_query ELSE BuildQuery(StructuredArgs(r))

AllMessages == <<"a", "l", "l", " ", "m", "e", "s", "s", "a", "g", "e", "s">>

\* query_str, the query the file-based tool reports
ReportedQuery(r) ==
    IF Truthy(r.gmail_query) THEN r.gmail_query
    ELSE LET query_parts ==
                (IF Truthy(r.from_email) THEN <<FromKey \o r.from_email>> ELSE <<>>)
                \o (IF Truthy(r.to_email) THEN <<ToKey \o r.to_email>> ELSE <<>>)
                \o (IF Truthy(r.subject) THEN <<SubjectKey \o r.subject>> ELSE <<>>)
         IN IF query_parts # <<>> THEN Join(query_parts, <<" ">>) ELSE AllMessages

ResultsTail == <<"_", "r", "e", "s", "u", "l", "t", "s", ".", "m", "d">>

\* f'search_{query_str}_{len(messages)}_results.md'
SearchFileName(query_str, n) ==
    SearchPrefix \o query_str \o <<"_">> \o Digits0(n, 1) \o ResultsTail

GetCalls(ids) == [i \in 1..Len(ids) |-> GetCall(ids[i])]

\* src/server.py search_emails
SearchEmails ==
    /\ pc = "ready"
    /\ tool = "search_emails"
    /\ IF SearchRefusal(req) # "ok"
       THEN /\ searchOut' = [status |-> "ToolError", about |-> SearchRefusal(req),
                            text |-> RefusalText(req)]
            /\ UNCHANGED <<providerCalls, files>>
       ELSE \E ids \in ProviderMatches :
            LET query_str == ReportedQuery(req)
                markdown_content == [kind |-> "search_results", query |-> query_str,
                                     count |-> Len(ids), emails |-> ids]
                file_path == JoinPath(ExportDir,
                                      sanitize_filename(SearchFileName(query_str, Len(ids))))
            IN /\ providerCalls' = <<ListCall(SearchQuery(req))>> \o GetCalls(ids)
               /\ files' = WriteFile(files, file_path, markdown_content)
               /\ searchOut' = [status |-> "ok", path |-> file_path,
                                match_count |-> Len(ids), query |-> query_str,
                                content |-> markdown_content]
    /\ pc' = "done"
    /\ UNCHANGED <<extVars, tool, req, sanVars, dateVars, batchVars, fieldVars, bodyVars>>

\* mcp_gmail/server.py search_emails
SearchEmailsText ==
    /\ pc = "ready"
    /\ tool = "search_emails_text"
    /\ IF SearchRefusal(req) # "ok"
       THEN /\ searchOut' = [status |-> "ToolError", about |-> SearchRefusal(req),
                            text |-> RefusalText(req)]
            /\ UNCHANGED providerCalls
       ELSE \E matches \in ProviderMatches :
            /\ providerCalls' = <<ListCall(SearchQuery(req))>> \o GetCalls(matches)
            /\ searchOut' =
                 [status |-> "ok", match_count |-> Len(matches),
                  text |-> [i \in 1..Len(matches) |->
                              format_message_with_fields(Mailbox(matches[i]), matches[i],
                                                         parse_message_fields(req.fields))]]
    /\ pc' = "done"
    /\ UNCHANGED <<extVars, tool, files, req, sanVars, dateVars, batchVars, fieldVars, bodyVars>>

\* gmail.search_messages called with a structured filter
SearchMessages ==
    /\ pc = "ready"
    /\ tool = "search_messages"
    /\ \E matches \in ProviderMatches :
         /\ providerCalls' = Append(providerCalls, ListCall(BuildQuery(req)))
         /\ searchOut' = [status |-> "ok", messages |-> matches]
    /\ pc' = "done"
    /\ UNCHANGED <<extVars, tool, files, req, sanVars, dateVars, batchVars, fieldVars, bodyVars>>

(***************************************************************************)
(* The inputs of the search specification                                  *)
(***************************************************************************)
MaxLabels == 2

Sender == <<"a", "@", "b", ".", "c", "o", "m">>
Recipient == <<"c", "@", "d">>
SubjectText == <<"h", "i">>
LabelX == <<"x">>
LabelY == <<"y">>
GoodAfter == <<"2", "0", "2", "4", "/", "0", "1", "/", "0", "1">>
BadAfter == <<"2", "0", "2", "4", "/", "0", "2", "/", "3", "0">>
GoodBefore == <<"2", "0", "2", "4", "/", "1", "2", "/", "3", "1">>
BadBefore == <<"s", "o", "o", "n">>
RawQuery == <<"i", "s", ":", "r", "e", "a", "d", " ", "f", "r", "o", "m", ":", "x">>
StatusOther == <<"s", "e", "e", "n">>

SearchEmailsRequests ==
    [from_email : {None, <<>>, Sender}, to_email : {None, Recipient},
     subject : {None, SubjectText}, has_attachment : {"False", "True"},
     read_status : {None, StatusRead, StatusUnread, StatusOther},
     after_date : {None, <<>>, GoodAfter, BadAfter}, before_date : {None, GoodBefore, BadBefore},
     label : {None, LabelX}, gmail_query : {None, <<>>, RawQuery}, fields : {None}]

SearchMessagesArgs ==
    [read_status : {None, StatusRead, StatusUnread, StatusOther},
     labels : {NoLabels} \cup SeqsUpTo({LabelX, LabelY}, MaxLabels),
     from_email : {None, <<>>, Sender}, to_email : {None, Recipient},
     subject : {None, SubjectText}, after : {None, GoodAfter}, before : {None, GoodBefore},
     has_attachment : {"None", "False", "True"}, is_starred : {"None", "False", "True"},
     is_important : {"False", "True"}, in_trash : {"False", "True"}]

InitSearch ==
    /\ pc = "ready"
    /\ \/ tool \in {"search_emails", "search_emails_text"} /\ req \in SearchEmailsRequests
       \/ tool = "search_messages" /\ req \in SearchMessagesArgs
    /\ searchOut = [status |-> "pending"]
    /\ IdleExt /\ IdleStore /\ IdleSan /\ IdleDate /\ IdleBatch /\ IdleFields /\ IdleBody

NextSearch == SearchEmails \/ SearchEmailsText \/ SearchMessages

SpecSearch == InitSearch /\ [][NextSearch]_vars

IsSearchEmails == tool \in {"search_emails", "search_emails_text"}

\* a structured predicate of search_emails is supplied
PredicateSupplied(r) ==
    \/ r.from_email # None \/ r.to_email # None \/ r.subject # None
    \/ r.has_attachment = "True" \/ r.read_status # None
    \/ r.after_date # None \/ r.before_date # None \/ r.label # None

ClaimedClauses(a) ==
    <<IF a.read_status = StatusRead THEN <<IsRead>>
      ELSE IF a.read_status = StatusUnread THEN <<IsUnread>> ELSE <<>>,
      IF a.labels = NoLabels THEN <<>> ELSE [i \in 1..Len(a.labels) |-> LabelKey \o a.labels[i]],
      IF Truthy(a.from_email) THEN <<FromKey \o a.from_email>> ELSE <<>>,
      IF Truthy(a.to_email) THEN <<ToKey \o a.to_email>> ELSE <<>>,
      IF Truthy(a.subject) THEN <<SubjectKey \o a.subject>> ELSE <<>>,
      IF Truthy(a.after) THEN <<AfterKey \o a.after>> ELSE <<>>,
      IF Truthy(a.before) THEN <<BeforeKey \o a.before>> ELSE <<>>,
      IF a.has_attachment = "True" THEN <<HasAttachment>> ELSE <<>>,
      IF a.is_starred = "True" THEN <<IsStarred>> ELSE <<>>,
      IF a.is_important = "True" THEN <<IsImportant>> ELSE <<>>,
      IF a.in_trash = "True" THEN <<InTrash>> ELSE <<>> >>

NoFlags(a) ==
    /\ a.has_attachment # "True" /\ a.is_starred # "True"
    /\ a.is_important # "True" /\ a.in_trash # "True"

OnlySenderAndStatus(a) ==
    /\ a.labels \in {NoLabels, <<>>} /\ a.to_email = None /\ a.subject = None
    /\ a.after = None /\ a.before = None /\ NoFlags(a)

\* C2: the query search_messages searches with is the space-joined
\* sequence of one clause per true/non-empty predicate, in the order
\* read-status, labels, sender, recipient, subject, after, before,
\* has-attachment, starred, important, trash; a filter of sender a(at)b.com
\* and read_status unread gives is:unread from:a(at)b.com, and the empty
\* filter gives the empty string.
C2_QueryIsClausesInOrder ==
    (tool = "search_messages" /\ pc = "done"
        /\ req.read_status \in {None, StatusRead, StatusUnread}) =>
        /\ Len(providerCalls) = 1
        /\ providerCalls[1].q = Join(Flatten(ClaimedClauses(req)), <<" ">>)
        /\ (OnlySenderAndStatus(req) /\ req.from_email = Sender
              /\ req.read_status = StatusUnread)
              => providerCalls[1].q = <<"i", "s", ":", "u", "n", "r", "e", "a", "d", " ", "f", "r", "o", "m", ":", "a", "@", "b", ".", "c", "o", "m">>
        /\ (OnlySenderAndStatus(req) /\ ~Truthy(req.from_email) /\ req.read_status = None)
              => providerCalls[1].q = <<>>

\* a filter with two labels, a sender and a false attachment flag was searched
C2_Witness ==
    /\ tool = "search_messages" /\ pc = "done"
    /\ req.read_status = StatusUnread
    /\ req.labels = <<LabelY, LabelX>>
    /\ req.from_email = Sender
    /\ req.has_attachment = "False"
    /\ req.in_trash = "True"
    /\ Len(providerCalls) = 1


(***************************************************************************)
(* The get_emails tools: batches of message ids                            *)
(***************************************************************************)
\* str(e) of the exception the provider raises for a message id
ProviderError(id) == <<"H", "t", "t", "p", "E", "r", "r", "o", "r", " ", "4", "0", "4", " ">> \o id

NoMessageIds == <<"N", "o", " ", "m", "e", "s", "s", "a", "g", "e", " ", "I", "D", "s", " ", "p", "r", "o", "v", "i", "d", "e", "d", ".">>
FailedToDownload == <<"F", "a", "i", "l", "e", "d", " ", "t", "o", " ", "d", "o", "w", "n", "l", "o", "a", "d", " ", "e", "m", "a", "i", "l", " ">>
WriteError == <<"d", "i", "s", "k", " ", "f", "u", "l", "l">>
MdSuffix == <<".", "m", "d">>

EmptyFetch == [calls |-> <<>>, retrieved |-> <<>>, errors |-> <<>>]

RECURSIVE FetchLoop(_, _, _, _)
\* the loop of mcp_gmail get_emails over message_ids[i..]; fail is the set of
\* positions whose provider call raises
FetchLoop(ids, fail, i, acc) ==
    IF i > Len(ids) THEN acc
    ELSE LET called == [acc EXCEPT !.calls = Append(@, GetCall(ids[i]))]
         IN FetchLoop(ids, fail, i + 1,
                IF i \in fail
                THEN [called EXCEPT !.errors = Append(@, <<ids[i], ProviderError(ids[i])>>)]
                ELSE [called EXCEPT !.retrieved = Append(@, <<ids[i], Mailbox(ids[i])>>)])

FirstFailure(n, fail) ==
    LET at == {i \in 1..n : i \in fail}
    IN IF at = {} THEN 0 ELSE CHOOSE i \in at : \A j \in at : i <= j

\* a fetch loop that gives up at the first provider error
FetchAllEmails_StopAtFirstError(ids, fail) ==
    LET k == FirstFailure(Len(ids), fail)
    IN FetchLoop(IF k = 0 THEN ids ELSE SubSeq(ids, 1, k), fail, 1, EmptyFetch)

\* retrieved_emails and error_emails after the fetch loop
FetchAllEmails(ids, fail) == FetchLoop(ids, fail, 1, EmptyFetch)

\* the result string of mcp_gmail get_emails, kept as its parts
ListResult(fetched, fields) ==
    [retrieved_count |-> Len(fetched.retrieved),
     emails |-> [i \in 1..Len(fetched.retrieved) |->
                   [n |-> i,
                    lines |-> format_message_with_fields(fetched.retrieved[i][2],
                                                         fetched.retrieved[i][1], fields)]],
     failed_count |-> Len(fetched.errors),
     failures |-> [i \in 1..Len(fetched.errors) |->
                     [n |-> i, id |-> fetched.errors[i][1], error |-> fetched.errors[i][2]]]]

\* f'email_{msg_id}_{metadata.subject}.md'
EmailFileName(id, msg) ==
    EmailPrefix \o id \o <<"_">> \o HeaderGet(msg, "Subject", NoSubject) \o MdSuffix

EmptyDownload(fs) == [calls |-> <<>>, results |-> <<>>, fs |-> fs, raised |-> None]

RECURSIVE DownloadLoop(_, _, _, _, _)
\* the loop of src get_emails over message_ids[i..]; stage says whether a
\* failing item fails in the provider call or in the write of its file
DownloadLoop(ids, fail, stage, i, acc) ==
    IF i > Len(ids) \/ acc.raised # None THEN acc
    ELSE LET called == [acc EXCEPT !.calls = Append(@, GetCall(ids[i]))]
             msg == Mailbox(ids[i])
             body == parse_message_body(msg)
             file_path == JoinPath(ExportDir, sanitize_filename(EmailFileName(ids[i], msg)))
             markdown_content == [kind |-> "email", id |-> ids[i], body |-> body]
         IN DownloadLoop(ids, fail, stage, i + 1,
                IF i \in fail
                THEN [called EXCEPT !.raised =
                        FailedToDownload \o ids[i] \o <<":", " ">>
                        \o (IF stage = "fetch" THEN ProviderError(ids[i]) ELSE WriteError)]
                ELSE [called EXCEPT
                        !.fs = WriteFile(@, file_path, markdown_content),
                        !.results = Append(@, [path |-> file_path, id |-> ids[i]])])

\* a download loop that logs the error and goes on with the next item
DownloadEmails_ContinueAfterError(ids, fail, stage, fs) ==
    LET k == FirstFailure(Len(ids), fail)
        all == DownloadLoop(ids, {}, stage, 1, EmptyDownload(fs))
    IN IF k = 0 THEN all
       ELSE [all EXCEPT !.raised = DownloadLoop(ids, fail, stage, 1, EmptyDownload(fs)).raised]

\* a download that removes what it wrote when an item fails
DownloadEmails_RollBackOnError(ids, fail, stage, fs) ==
    LET done == DownloadLoop(ids, fail, stage, 1, EmptyDownload(fs))
    IN IF done.raised # None THEN [done EXCEPT !.fs = fs] ELSE done

\* the state src get_emails leaves: calls made, files written, results or error
DownloadEmails(ids, fail, stage, fs) == DownloadLoop(ids, fail, stage, 1, EmptyDownload(fs))

\* mcp_gmail/server.py get_emails
GetEmailsList ==
    /\ pc = "ready"
    /\ tool = "get_emails_list"
    /\ IF message_ids = <<>>
       THEN /\ batchOut' = [status |-> "ok", text |-> NoMessageIds]
            /\ UNCHANGED providerCalls
       ELSE \E fields \in {None, AllSentinel} :
            LET fetched == FetchAllEmails(message_ids, failing)
            IN /\ providerCalls' = providerCalls \o fetched.calls
               /\ batchOut' = [status |-> "ok", retrieved_emails |-> fetched.retrieved,
                               error_emails |-> fetched.errors,
                               result |-> ListResult(fetched, parse_message_fields(fields))]
    /\ pc' = "done"
    /\ UNCHANGED <<extVars, tool, files, message_ids, failing, sanVars, dateVars, searchVars,
                   fieldVars, bodyVars>>

\* src/server.py get_emails
GetEmailsDownload ==
    /\ pc = "ready"
    /\ tool = "get_emails"
    /\ IF message_ids = <<>>
       THEN /\ batchOut' = [status |-> "ToolError", text |-> NoMessageIds]
            /\ UNCHANGED <<providerCalls, files>>
       ELSE \E stage \in {"fetch", "write"} :
            LET done == DownloadEmails(message_ids, failing, stage, files)
            IN /\ providerCalls' = providerCalls \o done.calls
               /\ files' = done.fs
               /\ batchOut' = IF done.raised # None
                              THEN [status |-> "ToolError", text |-> done.raised]
                              ELSE [status |-> "ok", results |-> done.results]
    /\ pc' = "done"
    /\ UNCHANGED <<extVars, tool, message_ids, failing, sanVars, dateVars, searchVars,
                   fieldVars, bodyVars>>

MaxBatch == 3

InitBatch ==
    /\ pc = "ready"
    /\ tool \in {"get_emails_list", "get_emails"}
    /\ message_ids \in SeqsUpTo(Range(MailboxIds), MaxBatch)
    /\ failing \in SUBSET (1..Len(message_ids))
    /\ batchOut = [status |-> "pending"]
    /\ IdleExt /\ IdleStore /\ IdleSan /\ IdleDate /\ IdleSearch /\ IdleFields /\ IdleBody

NextBatch == GetEmailsList \/ GetEmailsDownload

SpecBatch == InitBatch /\ [][NextBatch]_vars

RECURSIVE Ascending(_)
\* the members of a set of positions, smallest first
Ascending(S) ==
    IF S = {} THEN <<>>
    ELSE LET m == CHOOSE x \in S : \A y \in S : x <= y
         IN <<m>> \o Ascending(S \ {m})

Succeeded == Ascending((1..Len(message_ids)) \ failing)
Failed == Ascending(failing)

\* C3: in the collect-and-report get_emails every id of the input is fetched
\* exactly once, whatever failed before it; the success list is the
\* succeeded ids in input order, the failure list is the failed ids, each
\* with its error message, in input order, and the two lists together
\* account for every input id.
C3_CollectsEveryItemInOrder ==
    (tool = "get_emails_list" /\ pc = "done" /\ message_ids # <<>>) =>
        /\ providerCalls = [i \in 1..Len(message_ids) |-> GetCall(message_ids[i])]
        /\ batchOut.retrieved_emails =
             [j \in 1..Len(Succeeded) |->
                <<message_ids[Succeeded[j]], Mailbox(message_ids[Succeeded[j]])>>]
        /\ batchOut.error_emails =
             [j \in 1..Len(Failed) |->
                <<message_ids[Failed[j]], ProviderError(message_ids[Failed[j]])>>]
        /\ Len(batchOut.retrieved_emails) + Len(batchOut.error_emails) = Len(message_ids)
        /\ batchOut.result.retrieved_count = Len(Succeeded)
        /\ batchOut.result.failed_count = Len(Failed)

\* three ids were fetched with the second failing: successes 1 and 3, failure 2
C3_Witness ==
    /\ tool = "get_emails_list" /\ pc = "done"
    /\ message_ids = <<MsgId1, MsgId2, MsgId3>>
    /\ failing = {2}
    /\ Len(providerCalls) = 3
    /\ batchOut.retrieved_emails = <<<<MsgId1, Mailbox(MsgId1)>>, <<MsgId3, Mailbox(MsgId3)>>>>
    /\ batchOut.error_emails = <<<<MsgId2, ProviderError(MsgId2)>>>>

FirstFailing == FirstFailure(Len(message_ids), failing)

\* C4: in the file-based get_emails, when item k is the first to fail the
\* call raises a ToolError naming item k's id, returns no result list (not
\* even for the items before k), and issues no provider fetch for any item
\* after k.
C4_FailsFastOnFirstFailure ==
    (tool = "get_emails" /\ pc = "done" /\ FirstFailing # 0) =>
        /\ batchOut.status = "ToolError"
        /\ StartsWith(batchOut.text, FailedToDownload \o message_ids[FirstFailing] \o <<":">>)
        /\ "results" \notin DOMAIN batchOut
        /\ providerCalls = [i \in 1..FirstFailing |-> GetCall(message_ids[i])]

\* three ids were downloaded with the second failing: one fetch short
C4_Witness ==
    /\ tool = "get_emails" /\ pc = "done"
    /\ message_ids = <<MsgId1, MsgId2, MsgId3>>
    /\ failing = {2}
    /\ batchOut.status = "ToolError"
    /\ providerCalls = <<GetCall(MsgId1), GetCall(MsgId2)>>
    /\ DOMAIN files # {}


\* C11: the header of the search-results document and SearchResult.query
\* state the query the provider search was run with: the raw gmail_query
\* of a raw search, and for a structured search the query built from all
\* active predicates of the filter.
C11_ReportedQueryIsSearchedQuery ==
    (tool = "search_emails" /\ pc = "done" /\ searchOut.status = "ok") =>
        /\ searchOut.query = providerCalls[1].q
        /\ searchOut.content.query = providerCalls[1].q
        /\ files[searchOut.path].query = providerCalls[1].q


(***************************************************************************)
(* Threads: format_thread_as_markdown, the thread resource, get_thread     *)
(***************************************************************************)
RfcDate == <<"T", "u", "e", ",", " ", "2", "8", " ", "O", "c", "t", " ", "2", "0", "2", "5", " ", "1", "6", ":", "5", "6", ":", "3", "5", " ", "+", "0", "0", "0", "0">>
LocalDate == <<"2", "0", "2", "5", "-", "1", "0", "-", "2", "8", " ", "0", "4", ":", "5", "6", " ", "P", "M", " ", "U", "T", "C">>

\* the Date values parsedate_to_datetime parses, with their local rendering
ParsedDates == (RfcDate :> LocalDate)

\* a Date value parsedate_to_datetime parses whose instant, moved to the
\* local zone by astimezone(), lies beyond year 9999
LateDate == <<"F", "r", "i", ",", " ", "3", "1", " ", "D", "e", "c", " ", "9", "9", "9", "9", " ", "2", "3", ":", "5", "9", ":", "5", "9", " ", "-", "0", "1", "0", "0">>
NoDate == <<"s", "o", "o", "n">>

\* dt.astimezone() raises OverflowError ('date value out of range')
AstimezoneOverflows == {LateDate}

\* the exceptions format_email_date handles
HandledByFormatEmailDate == {"ValueError", "TypeError", "AttributeError"}

\* what the body of the try block of format_email_date does
TryFormatEmailDate(date) ==
    IF date \in DOMAIN ParsedDates THEN [raised |-> "no", text |-> ParsedDates[date]]
    ELSE IF date \in AstimezoneOverflows THEN [raised |-> "OverflowError"]
    ELSE [raised |-> "ValueError"]

\* helpers.format_email_date
format_email_date(date) ==
    IF ~Truthy(date) \/ date = UnknownDate THEN [raised |-> "no", text |-> UnknownDate]
    ELSE IF TryFormatEmailDate(date).raised \in HandledByFormatEmailDate
    THEN [raised |-> "no", text |-> date]
    ELSE TryFormatEmailDate(date)

\* the Date header as the thread renderer reads it
DateOf(msg) == HeaderGet(msg, "Date", UnknownDate)

ThreadTitle == <<"#", " ", "E", "m", "a", "i", "l", " ", "T", "h", "r", "e", "a", "d">>
ThreadIdLabel == <<"*", "*", "T", "h", "r", "e", "a", "d", " ", "I", "D", ":", "*", "*", " ">>
NoMessagesFound == <<"N", "o", " ", "m", "e", "s", "s", "a", "g", "e", "s", " ", "f", "o", "u", "n", "d", ".">>
MessageCountLabel == <<"*", "*", "M", "e", "s", "s", "a", "g", "e", " ", "C", "o", "u", "n", "t", ":", "*", "*", " ">>
Rule == <<"-", "-", "-">>
MessageHeading == <<"#", "#", " ", "M", "e", "s", "s", "a", "g", "e", " ">>
MessageIdLabel == <<"*", "*", "M", "e", "s", "s", "a", "g", "e", " ", "I", "D", ":", "*", "*", " ">>
FromLabel == <<"*", "*", "F", "r", "o", "m", ":", "*", "*", " ">>
ToLabel == <<"*", "*", "T", "o", ":", "*", "*", " ">>
DateLabel == <<"*", "*", "D", "a", "t", "e", ":", "*", "*", " ">>
SubjectLabel == <<"*", "*", "S", "u", "b", "j", "e", "c", "t", ":", "*", "*", " ">>
UnknownId == <<"u", "n", "k", "n", "o", "w", "n">>

\* the block format_thread_as_markdown appends for the i-th (message, body)
ThreadMessageLines(i, msg, body) ==
    <<MessageHeading \o Digits0(i, 1), <<>>,
      MessageIdLabel \o (IF "id" \in DOMAIN msg THEN msg.id ELSE UnknownId),
      FromLabel \o HeaderGet(msg, "From", Unknown),
      ToLabel \o HeaderGet(msg, "To", Unknown),
      DateLabel \o format_email_date(DateOf(msg)).text,
      SubjectLabel \o HeaderGet(msg, "Subject", NoSubject),
      <<>>, body, <<>>, Rule, <<>> >>

\* a renderer that reads the first message before looking at the list
format_thread_as_markdown_NoStub(thread_obj, id, messages_with_bodies) ==
    IF messages_with_bodies = <<>>
    THEN [raised |-> "IndexError"]
    ELSE [raised |-> "no",
          lines |-> <<ThreadTitle \o <<":", " ">>
                        \o HeaderGet(messages_with_bodies[1][1], "Subject", NoSubject)>>]

\* helpers.format_thread_as_markdown: the document, as its lines
format_thread_as_markdown(thread_obj, id, messages_with_bodies) ==
    IF messages_with_bodies = <<>>
    THEN [raised |-> "no",
          lines |-> <<ThreadTitle, <<>>, ThreadIdLabel \o id, <<>>, NoMessagesFound>>]
    ELSE IF \E i \in 1..Len(messages_with_bodies) :
                format_email_date(DateOf(messages_with_bodies[i][1])).raised # "no"
    THEN LET i == CHOOSE k \in 1..Len(messages_with_bodies) :
                    /\ format_email_date(DateOf(messages_with_bodies[k][1])).raised # "no"
                    /\ \A j \in 1..(k - 1) :
                          format_email_date(DateOf(messages_with_bodies[j][1])).raised = "no"
         IN [raised |-> format_email_date(DateOf(messages_with_bodies[i][1])).raised]
    ELSE [raised |-> "no",
          lines |-> <<ThreadTitle \o <<":", " ">>
                        \o HeaderGet(messages_with_bodies[1][1], "Subject", NoSubject),
                      <<>>, ThreadIdLabel \o id,
                      MessageCountLabel \o Digits0(Len(messages_with_bodies), 1),
                      <<>>, Rule, <<>> >>
                    \o Flatten([i \in 1..Len(messages_with_bodies) |->
                                  ThreadMessageLines(i, messages_with_bodies[i][1],
                                                     messages_with_bodies[i][2])])]

\* thread.get('messages', [])
ThreadMessages(thread_obj) ==
    IF "messages" \in DOMAIN thread_obj THEN thread_obj.messages ELSE <<>>

\* [(message, parse_message_body(message)) for message in messages]
WithBodies(messages) ==
    [i \in 1..Len(messages) |-> <<messages[i], parse_message_body(messages[i])>>]

ThreadGetCall(id) == [op |-> "threads.get", id |-> id]

NoMessagesInThread == <<"N", "o", " ", "m", "e", "s", "s", "a", "g", "e", "s", " ", "f", "o", "u", "n", "d", " ", "i", "n", " ", "t", "h", "r", "e", "a", "d", " ">>
ToWord == <<" ", "t", "o", " ">>

\* f'thread_{thread_id}_{subject}.md'
ThreadFileName(id, subject) == ThreadPrefix \o id \o <<"_">> \o subject \o MdSuffix

\* server.get_email_thread, the gmail://threads/{thread_id} resource
GetEmailThread ==
    /\ pc = "ready"
    /\ tool = "get_email_thread"
    /\ providerCalls' = Append(providerCalls, ThreadGetCall(thread_id))
    /\ LET rendered == format_thread_as_markdown(thread, thread_id,
                                                 WithBodies(ThreadMessages(thread)))
       IN threadOut' = IF rendered.raised # "no"
                       THEN [status |-> "error", error |-> rendered.raised]
                       ELSE [status |-> "ok", lines |-> rendered.lines]
    /\ pc' = "done"
    /\ UNCHANGED <<extButThread, tool, files, thread_id, thread, sanVars, dateVars, searchVars, batchVars,
                   fieldVars, bodyVars>>

\* a tool that writes the stub document for a thread without messages
GetThreadOnEmpty_WritesStub(fs, id) ==
    LET file_path == JoinPath(ExportDir, sanitize_filename(ThreadFileName(id, NoSubject)))
    IN [out |-> [status |-> "ok", path |-> file_path, message_count |-> 0,
                 thread_id |-> id, subject |-> NoSubject, date_range |-> Unknown],
        files |-> WriteFile(fs, file_path,
                            format_thread_as_markdown([id |-> id], id, <<>>).lines)]

\* what get_thread does 'if not messages': the result and the store
GetThreadOnEmpty(fs, id) ==
    [out |-> [status |-> "ToolError", text |-> NoMessagesInThread \o id],
     files |-> fs]

\* server.get_thread, the tool
GetThread ==
    /\ pc = "ready"
    /\ tool = "get_thread"
    /\ providerCalls' = Append(providerCalls, ThreadGetCall(thread_id))
    /\ LET messages == ThreadMessages(thread)
           subject == HeaderGet(messages[1], "Subject", NoSubject)
           first_date == HeaderGet(messages[1], "Date", Unknown)
           last_date == HeaderGet(messages[Len(messages)], "Date", Unknown)
           rendered == format_thread_as_markdown(thread, thread_id, WithBodies(messages))
           file_path == JoinPath(ExportDir, sanitize_filename(ThreadFileName(thread_id, subject)))
       IN IF messages = <<>>
          THEN /\ threadOut' = GetThreadOnEmpty(files, thread_id).out
               /\ files' = GetThreadOnEmpty(files, thread_id).files
          ELSE IF rendered.raised # "no"
          THEN /\ threadOut' = [status |-> "error", error |-> rendered.raised]
               /\ UNCHANGED files
          ELSE /\ files' = WriteFile(files, file_path, rendered.lines)
               /\ threadOut' = [status |-> "ok", path |-> file_path,
                                message_count |-> Len(messages), thread_id |-> thread_id,
                                subject |-> subject,
                                date_range |-> IF Len(messages) > 1
                                               THEN first_date \o ToWord \o last_date
                                               ELSE first_date]
    /\ pc' = "done"
    /\ UNCHANGED <<extButThread, tool, thread_id, thread, sanVars, dateVars, searchVars, batchVars,
                   fieldVars, bodyVars>>

MaxThread == 2

ThreadId1 == <<"t", "1">>
ThreadId2 == <<"t", "2">>

MsgDated ==
    [id |-> MsgId1, threadId |-> ThreadId1, labelIds |-> <<LabelInbox>>,
     payload |-> Payload(<<SubjectHeader, [name |-> "Date", value |-> RfcDate]>>, PlainOk)]
MsgNoId == [threadId |-> ThreadId1, payload |-> Payload(<<>>, PlainHi)]
MsgNoDate ==
    [id |-> MsgId2, threadId |-> ThreadId1, labelIds |-> <<LabelInbox>>,
     payload |-> Payload(<<SubjectHeader, [name |-> "Date", value |-> NoDate]>>, PlainOk)]
MsgLateDate ==
    [id |-> MsgId2, threadId |-> ThreadId1, labelIds |-> <<LabelInbox>>,
     payload |-> Payload(<<SubjectHeader, [name |-> "Date", value |-> LateDate]>>, PlainOk)]

ThreadMessagePool == {Mailbox(MsgId1), Mailbox(MsgId2), MsgDated, MsgNoId, MsgNoDate, MsgLateDate}

\* the thread objects the provider may answer with
ProviderThreads(id) ==
    {[id |-> id]} \cup
    {[id |-> id, messages |-> ms] : ms \in SeqsUpTo(ThreadMessagePool, MaxThread)}

InitThread ==
    /\ pc = "ready"
    /\ tool \in {"get_email_thread", "get_thread"}
    /\ thread_id \in {ThreadId1, ThreadId2}
    /\ thread \in ProviderThreads(thread_id)
    /\ threadOut = [status |-> "pending"]
    /\ IdleLife /\ IdleConc /\ IdleCfg /\ IdleAtt /\ IdleStore /\ IdleSan /\ IdleDate /\ IdleSearch /\ IdleBatch /\ IdleFields /\ IdleBody

NextThread == GetEmailThread \/ GetThread

SpecThread == InitThread /\ [][NextThread]_vars

\* C12: thread materialization (format_thread_as_markdown, as the thread
\* resource uses it) with an empty message list returns a stub document
\* holding the thread id and a 'No messages found' notice, and raises no
\* error.
C12_EmptyThreadGivesStub ==
    (tool = "get_email_thread" /\ pc = "done" /\ ThreadMessages(thread) = <<>>) =>
        /\ threadOut.status = "ok"
        /\ \E i \in 1..Len(threadOut.lines) :
             /\ Len(threadOut.lines[i]) >= Len(thread_id)
             /\ SubSeq(threadOut.lines[i], Len(threadOut.lines[i]) - Len(thread_id) + 1,
                       Len(threadOut.lines[i])) = thread_id
        /\ \E i \in 1..Len(threadOut.lines) :
             StartsWith(threadOut.lines[i], <<"N", "o", " ", "m", "e", "s", "s", "a", "g", "e", "s", " ", "f", "o", "u", "n", "d">>)
        /\ \A i \in 1..Len(threadOut.lines) : ~StartsWith(threadOut.lines[i], MessageHeading)

\* the resource rendered a thread object without a messages key
C12_Witness ==
    /\ tool = "get_email_thread" /\ pc = "done"
    /\ "messages" \notin DOMAIN thread
    /\ thread_id = ThreadId2
    /\ threadOut.status = "ok"
    /\ Len(providerCalls) = 1


\* C13: a get_emails call with an empty list of message ids is reported
\* to the caller as an error (a ToolError, not a normal result) and issues
\* no provider call.
C13_EmptyBatchIsError ==
    (tool \in {"get_emails", "get_emails_list"} /\ pc = "done" /\ message_ids = <<>>) =>
        /\ batchOut.status = "ToolError"
        /\ providerCalls = <<>>


(***************************************************************************)
(* The server run: lifespan, tool invocations, process exit                *)
(***************************************************************************)
IsUnder(path, dir) == Len(path) > Len(dir) /\ SubSeq(path, 1, Len(dir)) = dir

\* a cleanup that removes the directory only when it holds no file
cleanup_OnlyWhenEmpty(fs, exists) ==
    IF \E p \in DOMAIN fs : IsUnder(p, ExportDir)
    THEN [fs |-> fs, exists |-> exists, removed |-> 0]
    ELSE [fs |-> fs, exists |-> FALSE, removed |-> IF exists THEN 1 ELSE 0]

\* _temp_dir.cleanup(): the directory and everything below it is removed
cleanup(fs, exists) ==
    [fs |-> [p \in {q \in DOMAIN fs : ~IsUnder(q, ExportDir)} |-> fs[p]],
     exists |-> FALSE,
     removed |-> IF exists THEN 1 ELSE 0]

MaxServed == 3

DEFAULT_CREDENTIALS_PATH == <<"c", "r", "e", "d", "e", "n", "t", "i", "a", "l", "s", ".", "j", "s", "o", "n">>
CredentialsNotFoundAt == <<"C", "r", "e", "d", "e", "n", "t", "i", "a", "l", "s", " ", "f", "i", "l", "e", " ", "n", "o", "t", " ", "f", "o", "u", "n", "d", " ", "a", "t", " ">>
PleaseDownload == <<".", " ", "P", "l", "e", "a", "s", "e", " ", "d", "o", "w", "n", "l", "o", "a", "d", " ", "y", "o", "u", "r", " ", "O", "A", "u", "t", "h", " ", "c", "r", "e", "d", "e", "n", "t", "i", "a", "l", "s", " ", "f", "r", "o", "m", " ", "G", "o", "o", "g", "l", "e", " ", "C", "l", "o", "u", "d", " ", "C", "o", "n", "s", "o", "l", "e", ".">>

\* the states the token file can be found in: absent, or holding
\* credentials that are valid, expired with or without a refresh token, or
\* neither valid nor expired (no access token)
TokenStates == {"missing", "valid", "expired", "expired_no_refresh_token", "no_access_token"}

AuthEnvs ==
    [token : TokenStates, credentials_file : BOOLEAN, refresh_ok : BOOLEAN, flow_ok : BOOLEAN]

StartupResult(raised, text, service, token) ==
    [raised |-> raised, text |-> text, service |-> service, token_file |-> token]

\* a get_gmail_service that starts the consent flow without looking for
\* the credentials file
get_gmail_service_NoFileCheck(a, credentials_path) ==
    IF a.token = "valid" THEN StartupResult("no", <<>>, TRUE, a.token)
    ELSE IF a.token = "expired"
    THEN IF a.refresh_ok THEN StartupResult("no", <<>>, TRUE, "valid")
         ELSE StartupResult("RefreshError", <<>>, FALSE, a.token)
    ELSE IF a.flow_ok /\ a.credentials_file THEN StartupResult("no", <<>>, TRUE, "valid")
    ELSE StartupResult("FlowError", <<>>, FALSE, a.token)

\* gmail.get_gmail_service: the exception it raises (or "no"), whether it
\* returns a service, and the token file it leaves
get_gmail_service(a, credentials_path) ==
    IF a.token = "valid" THEN StartupResult("no", <<>>, TRUE, a.token)
    ELSE IF a.token = "expired"
    THEN IF a.refresh_ok THEN StartupResult("no", <<>>, TRUE, "valid")
         ELSE StartupResult("RefreshError", <<>>, FALSE, a.token)
    ELSE IF ~a.credentials_file
    THEN StartupResult("FileNotFoundError",
                       CredentialsNotFoundAt \o credentials_path \o PleaseDownload,
                       FALSE, a.token)
    ELSE IF a.flow_ok THEN StartupResult("no", <<>>, TRUE, "valid")
    ELSE StartupResult("FlowError", <<>>, FALSE, a.token)

ServedNames == {<<"a">>, <<".", "b">>, <<"a", "/", "c">>, <<"a", "_", "c">>}

\* lifespan up to its yield: the directory, then the provider service
LifespanStartup ==
    /\ phase = "down"
    /\ mkdirs' = mkdirs + 1
    /\ dirExists' = TRUE
    /\ startupOut' = get_gmail_service(authEnv, DEFAULT_CREDENTIALS_PATH)
    /\ phase' = IF startupOut'.raised = "no" THEN "serving" ELSE "aborted"
    /\ UNCHANGED <<pc, tool, files, providerCalls, authOk, authEnv, rmdirs, served, handles,
                   sanVars, dateVars, searchVars, batchVars, fieldVars, bodyVars, extButLife>>

\* one tool invocation that writes an artifact and returns its path
ServeFileTool ==
    /\ phase = "serving"
    /\ served < MaxServed
    /\ dirExists
    /\ \E name \in ServedNames, data \in {"x", "y"} :
         LET save_path == JoinPath(ExportDir, sanitize_filename(name))
         IN /\ files' = WriteFile(files, save_path, [by |-> served + 1, data |-> data])
            /\ handles' = handles \cup {save_path}
    /\ served' = served + 1
    /\ UNCHANGED <<pc, tool, providerCalls, phase, authOk, dirExists, mkdirs, rmdirs, authVars,
                   sanVars, dateVars, searchVars, batchVars, fieldVars, bodyVars, extButLife>>

\* lifespan after its yield: the finally block
LifespanShutdown ==
    /\ phase = "serving"
    /\ LET after == cleanup(files, dirExists)
       IN /\ files' = after.fs
          /\ dirExists' = after.exists
          /\ rmdirs' = rmdirs + after.removed
    /\ phase' = "stopped"
    /\ UNCHANGED <<pc, tool, providerCalls, authOk, mkdirs, served, handles, authVars,
                   sanVars, dateVars, searchVars, batchVars, fieldVars, bodyVars, extButLife>>

\* the interpreter exits: the finalizer of a TemporaryDirectory that was
\* not cleaned up explicitly removes it
ProcessExit ==
    /\ phase \in {"stopped", "aborted"}
    /\ LET after == IF phase = "aborted" THEN cleanup(files, dirExists)
                    ELSE [fs |-> files, exists |-> dirExists, removed |-> 0]
       IN /\ files' = after.fs
          /\ dirExists' = after.exists
          /\ rmdirs' = rmdirs + after.removed
    /\ phase' = "exited"
    /\ UNCHANGED <<pc, tool, providerCalls, authOk, mkdirs, served, handles, authVars,
                   sanVars, dateVars, searchVars, batchVars, fieldVars, bodyVars, extButLife>>

InitLife ==
    /\ pc = "ready"
    /\ tool = "server"
    /\ phase = "down"
    /\ authEnv \in AuthEnvs
    /\ authOk = (get_gmail_service(authEnv, DEFAULT_CREDENTIALS_PATH).raised = "no")
    /\ startupOut = [raised |-> "pending"]
    /\ dirExists = FALSE
    /\ mkdirs = 0 /\ rmdirs = 0 /\ served = 0 /\ handles = {}
    /\ IdleThread /\ IdleConc /\ IdleCfg /\ IdleAtt /\ IdleStore /\ IdleSan /\ IdleDate /\ IdleSearch /\ IdleBatch
    /\ IdleFields /\ IdleBody

NextLife == LifespanStartup \/ ServeFileTool \/ LifespanShutdown \/ ProcessExit

SpecLife == InitLife /\ [][NextLife]_vars

\* C14: in every run of the server the export directory is created exactly
\* once, before any tool invocation is served, and removed exactly once at
\* shutdown; after shutdown neither the directory nor any artifact written
\* into it exists, so every handle issued is dangling.
C14_DirectoryCreatedOnceRemovedOnce ==
    /\ mkdirs <= 1 /\ rmdirs <= 1
    /\ (phase # "down") => mkdirs = 1
    /\ (served > 0) => mkdirs = 1
    /\ (phase = "serving") => (dirExists /\ rmdirs = 0)
    /\ (phase \in {"stopped", "exited"}) =>
          /\ rmdirs = 1
          /\ ~dirExists
          /\ \A h \in handles : h \notin DOMAIN files
          /\ \A p \in DOMAIN files : ~IsUnder(p, ExportDir)

\* a run that served three invocations, two of them under different names,
\* and then shut down
C14_Witness ==
    /\ phase = "stopped"
    /\ served = 3
    /\ Cardinality(handles) = 2
    /\ mkdirs = 1 /\ rmdirs = 1


(***************************************************************************)
(* Concurrent tool invocations on the event loop                           *)
(***************************************************************************)
FileBytes(fs, path) == IF path \in DOMAIN fs THEN fs[path] ELSE <<>>

\* write(data) at offset 0 of an open file: bytes beyond the data stay
WriteAtStart(fs, path, data) ==
    WriteFile(fs, path, data \o SubSeq(FileBytes(fs, path), Len(data) + 1,
                                       Len(FileBytes(fs, path))))

\* a write that opens the file without truncating it
write_bytes_NoTruncate(fs, path, data) == WriteAtStart(fs, path, data)

\* Path.write_bytes: open for writing (truncating), write, close
write_bytes(fs, path, data) == WriteAtStart(WriteFile(fs, path, <<>>), path, data)

\* a write_text that opens the file for appending
write_text_Appends(fs, path, text) == WriteFile(fs, path, FileBytes(fs, path) \o text)

\* Path.write_text(markdown_content, encoding='utf-8') of ASCII text
write_text(fs, path, text) == write_bytes(fs, path, text)

\* the text written for one email: its id line and its body
EmailText(id) == <<"#">> \o id \o <<"\n">> \o parse_message_body(Mailbox(id))

RECURSIVE WriteEmails(_, _, _, _)
\* the writes of get_emails' loop over ids[i..], none of them failing:
\* the store and the log of writes after it
WriteEmails(ids, i, by, acc) ==
    IF i > Len(ids) THEN acc
    ELSE LET file_path == JoinPath(ExportDir,
                                   sanitize_filename(EmailFileName(ids[i], Mailbox(ids[i]))))
         IN WriteEmails(ids, i + 1, by,
                [fs |-> write_text(acc.fs, file_path, EmailText(ids[i])),
                 log |-> Append(acc.log, [path |-> file_path, data |-> EmailText(ids[i]),
                                          by |-> by])])

\* the coroutine passes its first await (logger.info) and is resumed
ToolResumes(i) ==
    /\ invocations[i].at = "called"
    /\ invocations' = [invocations EXCEPT ![i].at = "running"]
    /\ UNCHANGED <<pc, tool, files, providerCalls, writeLog>>

\* download_attachment between its two awaits
DownloadAttachmentRuns(i) ==
    /\ invocations[i].at = "running"
    /\ invocations[i].tool = "download_attachment"
    /\ LET save_path == JoinPath(ExportDir, sanitize_filename(invocations[i].filename))
           attachment_data == invocations[i].data
       IN /\ files' = write_bytes(files, save_path, attachment_data)
          /\ writeLog' = Append(writeLog, [path |-> save_path, data |-> attachment_data,
                                           by |-> i])
          /\ invocations' = [invocations EXCEPT ![i].at = "logged", ![i].path = <<save_path>>,
                                               ![i].size_bytes = <<Len(attachment_data)>>]
    /\ providerCalls' = providerCalls \o
                          <<[op |-> "attachments.get", id |-> invocations[i].message_id],
                            GetCall(invocations[i].message_id)>>
    /\ UNCHANGED <<pc, tool>>

\* get_emails between its first await and the one after the loop
GetEmailsRuns(i) ==
    /\ invocations[i].at = "running"
    /\ invocations[i].tool = "get_emails"
    /\ LET done == WriteEmails(invocations[i].message_ids, 1, i,
                               [fs |-> files, log |-> <<>>])
       IN /\ files' = done.fs
          /\ writeLog' = writeLog \o done.log
          /\ invocations' = [invocations EXCEPT
                               ![i].at = "logged",
                               ![i].path = [k \in 1..Len(done.log) |-> done.log[k].path],
                               ![i].size_bytes =
                                   [k \in 1..Len(done.log) |-> Len(done.log[k].data)]]
    /\ providerCalls' = providerCalls \o GetCalls(invocations[i].message_ids)
    /\ UNCHANGED <<pc, tool>>

\* the coroutine passes its last await and returns its result; on_disk and
\* writes_before record what each returned path holds at that moment and how
\* many writes had been done by then
ToolReturns(i) ==
    /\ invocations[i].at = "logged"
    /\ invocations' = [invocations EXCEPT
                         ![i].at = "returned",
                         ![i].on_disk = [k \in 1..Len(invocations[i].path) |->
                                           FileBytes(files, invocations[i].path[k])],
                         ![i].writes_before = Len(writeLog)]
    /\ UNCHANGED <<pc, tool, files, providerCalls, writeLog>>

MaxInvocations == 2

AttachmentNames ==
    {<<"a">>, <<"a", "/", "b">>, <<"a", "_", "b">>, EmailFileName(MsgId1, Mailbox(MsgId1))}
AttachmentData == {<<"1", "1", "1">>, <<"2">>}

InvocationRequests ==
    [tool : {"download_attachment"}, message_id : {MsgId1}, filename : AttachmentNames,
     data : AttachmentData, at : {"called"}, path : {<<>>}, size_bytes : {<<>>},
     on_disk : {<<>>}, writes_before : {0}]
    \cup [tool : {"get_emails"}, message_ids : {<<MsgId1>>, <<MsgId2, MsgId1>>},
          at : {"called"}, path : {<<>>}, size_bytes : {<<>>}, on_disk : {<<>>},
          writes_before : {0}]

InitConc ==
    /\ pc = "ready"
    /\ tool = "event_loop"
    /\ \E n \in 1..MaxInvocations : invocations \in [1..n -> InvocationRequests]
    /\ writeLog = <<>>
    /\ IdleThread /\ IdleLife /\ IdleCfg /\ IdleAtt /\ IdleStore /\ IdleSan /\ IdleDate /\ IdleSearch
    /\ IdleBatch /\ IdleFields /\ IdleBody

NextConc ==
    \E i \in DOMAIN invocations :
        /\ \/ ToolResumes(i)
           \/ DownloadAttachmentRuns(i)
           \/ GetEmailsRuns(i)
           \/ ToolReturns(i)
        /\ UNCHANGED <<extButConc, sanVars, dateVars, searchVars, batchVars, fieldVars,
                       bodyVars>>

SpecConc == InitConc /\ [][NextConc]_vars

LastWriteTo(p) ==
    LET at == {k \in 1..Len(writeLog) : writeLog[k].path = p}
    IN writeLog[CHOOSE k \in at : \A j \in at : j <= k]

WrittenInStep == {writeLog'[k].path : k \in (Len(writeLog) + 1)..Len(writeLog')}

\* C15: under any interleaving of concurrent tool invocations, a write to
\* one sanitized name never changes the file stored under a different
\* sanitized name, and after two writes to the same sanitized name the file
\* holds exactly the content of the later write, never a mixture.
C15_LastWriterWinsOthersUntouched ==
    /\ [](/\ DOMAIN files = {writeLog[k].path : k \in 1..Len(writeLog)}
          /\ \A p \in DOMAIN files : files[p] = LastWriteTo(p).data)
    /\ [][\A p \in DOMAIN files :
            p \notin WrittenInStep => (p \in DOMAIN files' /\ files'[p] = files[p])]_vars

\* two invocations wrote different data under the same sanitized name while
\* a file under another name was in the store
C15_Witness ==
    /\ \E j, k \in 1..Len(writeLog) :
         /\ j < k
         /\ writeLog[j].path = writeLog[k].path
         /\ writeLog[j].by # writeLog[k].by
         /\ Len(writeLog[j].data) > Len(writeLog[k].data)
    /\ Cardinality(DOMAIN files) > 1
    /\ \A i \in DOMAIN invocations : invocations[i].at = "returned"


(***************************************************************************)
(* Configuration: Settings and get_settings                                *)
(***************************************************************************)
DEFAULT_USER_ID == <<"m", "e">>
DEFAULT_MAX_RESULTS == 10

SettingNames == {"credentials_path", "user_id", "max_results"}

\* the fields of Settings with their defaults
SettingDefaults ==
    [credentials_path |-> DEFAULT_CREDENTIALS_PATH, user_id |-> DEFAULT_USER_ID,
     max_results |-> DEFAULT_MAX_RESULTS]

\* env_prefix='MCP_GMAIL_': the variable that sets a field
EnvName == [credentials_path |-> "MCP_GMAIL_CREDENTIALS_PATH",
            user_id |-> "MCP_GMAIL_USER_ID", max_results |-> "MCP_GMAIL_MAX_RESULTS"]

\* the value a field takes from the text of its environment variable
FromEnvText(name, text) == IF name = "max_results" THEN ToInt(text) ELSE text

\* Settings(**init_values): init values, then the environment, then defaults
NewSettings(init_values, env) ==
    [name \in SettingNames |->
        IF name \in DOMAIN init_values THEN init_values[name]
        ELSE IF env[EnvName[name]] # None THEN FromEnvText(name, env[EnvName[name]])
        ELSE SettingDefaults[name]]

\* a validation that builds the model from the file's values and the
\* defaults alone
model_validate_WithoutEnvironment(file_config, env) ==
    [name \in SettingNames |->
        IF name \in DOMAIN file_config THEN file_config[name] ELSE SettingDefaults[name]]

\* Settings.model_validate(file_config): Settings has its own __init__, so
\* validation of a dict calls Settings(**file_config)
model_validate(file_config, env) == NewSettings(file_config, env)

CustomCreds == <<"c", "u", "s", "t", "o", "m", "_", "c", "r", "e", "d", "s", ".", "j", "s", "o", "n">>
Carol == <<"c", "a", "r", "o", "l">>
Bob == <<"b", "o", "b">>
Fifty == <<"5", "0">>

\* the JSON config files on disk, by path
ConfigFiles ==
    [a_json |-> [max_results |-> 20],
     b_json |-> [credentials_path |-> CustomCreds, user_id |-> Carol]]

\* the arguments get_settings is called with: none, None, or a path
NoConfigFile == {"noarg", "None"}
ConfigArgs == NoConfigFile \cup {"a_json", "b_json", "missing_json"}

\* os.path.exists(config_file)
path_exists(config_file) == config_file \in DOMAIN ConfigFiles

\* the body of get_settings: the Settings object it builds
LoadSettings(config_file, env) ==
    IF config_file \in NoConfigFile THEN NewSettings(<<>>, env)
    ELSE IF config_file # "" /\ path_exists(config_file)
    THEN model_validate(ConfigFiles[config_file], env)
    ELSE NewSettings(<<>>, env)

\* functools.lru_cache() keeps at most this many results
LRU_MAXSIZE == 128

CacheIndex(cache, key) ==
    LET at == {i \in 1..Len(cache) : cache[i].key = key}
    IN IF at = {} THEN 0 ELSE CHOOSE i \in at : TRUE

Without(cache, i) == SubSeq(cache, 1, i - 1) \o SubSeq(cache, i + 1, Len(cache))

\* a cache keyed by nothing: whatever is cached answers every call
CachedCall_OneSlot(cache, objs, key, env) ==
    IF cache # <<>>
    THEN [cache |-> cache, objs |-> objs, id |-> cache[1].id, fresh |-> FALSE]
    ELSE [cache |-> <<[key |-> key, id |-> Len(objs) + 1]>>,
          objs |-> Append(objs, LoadSettings(key, env)),
          id |-> Len(objs) + 1, fresh |-> TRUE]

\* @lru_cache() around get_settings: a hit returns the stored object and
\* makes it the most recent; a miss runs the body, stores the object and
\* drops the least recent entry beyond LRU_MAXSIZE
CachedCall(cache, objs, key, env) ==
    LET i == CacheIndex(cache, key)
    IN IF i # 0
       THEN [cache |-> Append(Without(cache, i), cache[i]), objs |-> objs,
             id |-> cache[i].id, fresh |-> FALSE]
       ELSE LET grown == Append(cache, [key |-> key, id |-> Len(objs) + 1])
            IN [cache |-> IF Len(grown) > LRU_MAXSIZE THEN Tail(grown) ELSE grown,
                objs |-> Append(objs, LoadSettings(key, env)),
                id |-> Len(objs) + 1, fresh |-> TRUE]

NeverCalled == [used |-> FALSE, id |-> 0, values |-> SettingDefaults,
                env |-> <<>>, cleared |-> FALSE]

CallRecord(n, key, id, fresh, objs, env, seen) ==
    [n |-> n, key |-> key, id |-> id, fresh |-> fresh, values |-> objs[id], env |-> env,
     prev |-> seen[key]]

Remember(seen, key, id, values, env) ==
    [seen EXCEPT ![key] = [used |-> TRUE, id |-> id, values |-> values, env |-> env,
                           cleared |-> FALSE]]

MaxCalls == 2

\* mcp_gmail/config.py get_settings
GetSettingsCached(key) ==
    /\ tool = "mcp_gmail.config"
    /\ LET call == CachedCall(lruCache, instances, key, environ)
       IN /\ cfgOut.n < MaxCalls
          /\ lruCache' = call.cache
          /\ instances' = call.objs
          /\ cfgOut' = CallRecord(cfgOut.n + 1, key, call.id, call.fresh, call.objs, environ, cfgSeen)
          /\ cfgSeen' = Remember(cfgSeen, key, call.id, call.objs[call.id],
                                 IF call.fresh THEN environ ELSE cfgSeen[key].env)
    /\ UNCHANGED environ

\* src/config.py get_settings
GetSettingsPlain(key) ==
    /\ tool = "src.config"
    /\ cfgOut.n < MaxCalls
    /\ instances' = Append(instances, LoadSettings(key, environ))
    /\ cfgOut' = CallRecord(cfgOut.n + 1, key, Len(instances'), TRUE, instances', environ, cfgSeen)
    /\ cfgSeen' = Remember(cfgSeen, key, Len(instances'), LoadSettings(key, environ), environ)
    /\ UNCHANGED <<environ, lruCache>>

\* get_settings.cache_clear()
CacheClear ==
    /\ tool = "mcp_gmail.config"
    /\ lruCache # <<>>
    /\ lruCache' = <<>>
    /\ cfgSeen' = [k \in DOMAIN cfgSeen |-> [cfgSeen[k] EXCEPT !.cleared = cfgSeen[k].used]]
    /\ UNCHANGED <<environ, instances, cfgOut>>

EnvValues ==
    [MCP_GMAIL_CREDENTIALS_PATH |-> {None}, MCP_GMAIL_USER_ID |-> {None, Bob},
     MCP_GMAIL_MAX_RESULTS |-> {None, Fifty}]

Environments ==
    [MCP_GMAIL_CREDENTIALS_PATH : EnvValues.MCP_GMAIL_CREDENTIALS_PATH,
     MCP_GMAIL_USER_ID : EnvValues.MCP_GMAIL_USER_ID,
     MCP_GMAIL_MAX_RESULTS : EnvValues.MCP_GMAIL_MAX_RESULTS]

\* os.environ[variable] = value, or its removal
SetEnv ==
    /\ \E variable \in DOMAIN environ :
         \E value \in EnvValues[variable] :
            /\ value # environ[variable]
            /\ environ' = [environ EXCEPT ![variable] = value]
    /\ UNCHANGED <<lruCache, instances, cfgOut, cfgSeen>>

\* the state after the import of the config module, whose last line is
\* settings = get_settings()
InitCfg ==
    /\ pc = "ready"
    /\ tool \in {"mcp_gmail.config", "src.config"}
    /\ environ \in Environments
    /\ instances = <<LoadSettings("noarg", environ)>>
    /\ lruCache = IF tool = "mcp_gmail.config" THEN <<[key |-> "noarg", id |-> 1]>> ELSE <<>>
    /\ cfgOut = [n |-> 0, key |-> "noarg", id |-> 1, fresh |-> TRUE, values |-> instances[1],
                 env |-> environ, prev |-> NeverCalled]
    /\ cfgSeen = [k \in ConfigArgs |->
                    IF k = "noarg"
                    THEN [used |-> TRUE, id |-> 1, values |-> instances[1], env |-> environ,
                          cleared |-> FALSE]
                    ELSE NeverCalled]
    /\ IdleThread /\ IdleLife /\ IdleConc /\ IdleAtt /\ IdleStore /\ IdleSan /\ IdleDate /\ IdleSearch
    /\ IdleBatch /\ IdleFields /\ IdleBody

NextCfg ==
    /\ \/ \E key \in ConfigArgs : GetSettingsCached(key)
       \/ \E key \in ConfigArgs : GetSettingsPlain(key)
       \/ CacheClear
       \/ SetEnv
    /\ UNCHANGED <<pc, tool, files, providerCalls, extButCfg, sanVars, dateVars, searchVars,
                   batchVars, fieldVars, bodyVars>>

SpecCfg == InitCfg /\ [][NextCfg]_vars


\* what the environment sets a field to: its variable's value, else the default
EnvOrDefault(name, env) ==
    IF env[EnvName[name]] = None THEN SettingDefaults[name]
    ELSE IF name = "max_results" THEN ToInt(env[EnvName[name]])
    ELSE env[EnvName[name]]

\* C16: a call get_settings() with no config file returns settings whose
\* values reflect the MCP_GMAIL_ environment variables set at the time of
\* that call, whatever get_settings calls came before it in the process.
C16_NoFileSettingsFollowEnvironment ==
    (cfgOut.key \in NoConfigFile) =>
        \A name \in SettingNames : cfgOut.values[name] = EnvOrDefault(name, cfgOut.env)

C18_FileReplacesEnvironment ==
    (path_exists(cfgOut.key) /\ cfgOut.fresh) =>
        \A name \in SettingNames :
            cfgOut.values[name] =
                IF name \in DOMAIN ConfigFiles[cfgOut.key] THEN ConfigFiles[cfgOut.key][name]
                ELSE SettingDefaults[name]

\* C18 as amended: with the path of an existing JSON config file every
\* setting named in the file has the file's value, and every other setting
\* has its environment-derived value: that of its MCP_GMAIL_ variable when
\* set, otherwise its built-in default.
C18_FileOverridesEnvironment ==
    (path_exists(cfgOut.key) /\ cfgOut.fresh) =>
        \A name \in SettingNames :
            cfgOut.values[name] =
                IF name \in DOMAIN ConfigFiles[cfgOut.key] THEN ConfigFiles[cfgOut.key][name]
                ELSE EnvOrDefault(name, cfgOut.env)

\* a config file naming only max_results was loaded while the environment
\* set the user id
C18_Witness ==
    /\ cfgOut.key = "a_json" /\ cfgOut.fresh
    /\ cfgOut.env.MCP_GMAIL_USER_ID = Bob
    /\ cfgOut.env.MCP_GMAIL_MAX_RESULTS = Fifty
    /\ cfgOut.values.max_results = 20


(***************************************************************************)
(* The body_preview field on long bodies                                   *)
(***************************************************************************)
CharCode(c) == IF c = "\n" THEN 10 ELSE (CHOOSE i \in DOMAIN Printable : Printable[i] = c) + 31

\* the padded base64url text the provider sends for an ASCII text
B64Encode(text) ==
    LET n == Len(text)
        byte(j) == IF j <= n THEN CharCode(text[j]) ELSE 0
        group(g) == byte(3 * g + 1) * 65536 + byte(3 * g + 2) * 256 + byte(3 * g + 3)
        sextet(g, k) == CASE k = 0 -> group(g) \div 262144
                          [] k = 1 -> (group(g) \div 4096) % 64
                          [] k = 2 -> (group(g) \div 64) % 64
                          [] k = 3 -> group(g) % 64
        \* characters of the last group that carry no byte are padding
        filled == ((n * 8) + 5) \div 6
    IN [i \in 1..(4 * ((n + 2) \div 3)) |->
          IF i > filled THEN "=" ELSE B64Alphabet[sextet((i - 1) \div 4, (i - 1) % 4) + 1]]

\* a single text/plain message carrying the text
MessageWithBody(text) ==
    [id |-> MsgId1, threadId |-> <<"t", "1">>, labelIds |-> <<>>,
     payload |-> Payload(<<SubjectHeader>>,
                         Container(<<[mimeType |-> "text/plain", filename |-> <<>>,
                                      body |-> [size |-> Len(text),
                                                data |-> B64Encode(text)]]>>))]

PreviewSlack == 50

PreviewLengths ==
    {0, 1, EMAIL_PREVIEW_LENGTH - PreviewSlack, EMAIL_PREVIEW_LENGTH - 1, EMAIL_PREVIEW_LENGTH,
     EMAIL_PREVIEW_LENGTH + 1, EMAIL_PREVIEW_LENGTH + PreviewSlack}

\* a text of the given length: letters, with the given characters put at
\* its start, at the preview limit and just after it, and a newline inside
TextOfShape(n, first, at_limit, after_limit, inner) ==
    [i \in 1..n |->
        IF i = 1 THEN first
        ELSE IF i = EMAIL_PREVIEW_LENGTH THEN at_limit
        ELSE IF i = EMAIL_PREVIEW_LENGTH + 1 THEN after_limit
        ELSE IF i = 3 THEN inner
        ELSE "a"]

PreviewTexts ==
    {TextOfShape(n, first, at_limit, after_limit, inner) :
        n \in PreviewLengths, first \in {"a", " ", "\n"}, at_limit \in {"a", " ", "\n"},
        after_limit \in {"b", " "}, inner \in {"a", "\n"}}

InitPreview ==
    /\ pc = "parsed"
    /\ tool = "body_preview"
    /\ bodyText \in PreviewTexts
    /\ message = MessageWithBody(bodyText)
    /\ fieldTokens = <<>> /\ fields_param = None
    /\ requested_fields \in {{"body_preview"}, {"id", "body_preview"}, AVAILABLE_MESSAGE_FIELDS}
    /\ result_lines = <<>>
    /\ IdleExt /\ IdleStore /\ IdleSan /\ IdleDate /\ IdleSearch /\ IdleBatch

SpecPreview == InitPreview /\ [][FormatMessage]_vars

PreviewLines == SelectSeq(result_lines, LAMBDA l : l.field = "body_preview")

IsBlank(c) == c \in {" ", "\n", "\t"}

\* the text between the first and the last non-blank character of the
\* first EMAIL_PREVIEW_LENGTH characters, newlines shown as spaces
TrimmedStart(text) ==
    LET m == IF Len(text) < EMAIL_PREVIEW_LENGTH THEN Len(text) ELSE EMAIL_PREVIEW_LENGTH
        solid == {i \in 1..m : ~IsBlank(text[i])}
    IN IF solid = {} THEN <<>>
       ELSE LET lo == CHOOSE i \in solid : \A j \in solid : i <= j
                hi == CHOOSE i \in solid : \A j \in solid : i >= j
            IN [k \in 1..(hi - lo + 1) |->
                  IF text[lo + k - 1] = "\n" THEN " " ELSE text[lo + k - 1]]

\* C19: the body_preview field is the first 200 characters of the
\* extracted plain-text body with newlines replaced by spaces and
\* surrounding whitespace trimmed, with the ellipsis appended exactly when
\* the body is longer than 200 characters: a 250-character body gives its
\* first 200 characters and the ellipsis, a 150-character body all 150 and
\* no ellipsis.
C19_PreviewIsTrimmedStartWithEllipsis ==
    (tool = "body_preview" /\ pc = "done") =>
        /\ Len(PreviewLines) = 1
        /\ PreviewLines[1].value =
             TrimmedStart(bodyText) \o (IF Len(bodyText) > 200 THEN <<".", ".", ".">> ELSE <<>>)
        /\ bodyText = Repeat("a", 250)
              => PreviewLines[1].value = Repeat("a", 200) \o <<".", ".", ".">>
        /\ bodyText = Repeat("a", 150) => PreviewLines[1].value = Repeat("a", 150)

\* a body of exactly 200 characters, blank at both ends, was previewed
C19_Witness ==
    /\ tool = "body_preview" /\ pc = "done"
    /\ Len(bodyText) = 200
    /\ bodyText[1] = " " /\ bodyText[200] = "\n" /\ bodyText[3] = "\n"
    /\ Len(PreviewLines) = 1
    /\ Len(PreviewLines[1].value) = 198


Contains(s, sub) ==
    \E i \in 1..(Len(s) - Len(sub) + 1) : SubSeq(s, i, i + Len(sub) - 1) = sub

Offending(date) == Truthy(date) /\ ~validate_date_format(date)

\* C20: a search_emails call whose after_date or before_date is non-empty
\* and fails date validation fails with a ToolError that names the
\* offending field and the expected YYYY/MM/DD pattern, and issues no
\* provider call; both bounds are validated by the same rule.
C20_BadDateBoundRefused ==
    (IsSearchEmails /\ pc = "done"
        /\ (Offending(req.after_date) \/ Offending(req.before_date))) =>
        /\ searchOut.status = "ToolError"
        /\ providerCalls = <<>>
        /\ Contains(searchOut.text, <<"Y", "Y", "Y", "Y", "/", "M", "M", "/", "D", "D">>)
        /\ \/ Offending(req.after_date) /\ StartsWith(searchOut.text, <<"a", "f", "t", "e", "r", "_", "d", "a", "t", "e", " ", "'">>)
           \/ Offending(req.before_date) /\ StartsWith(searchOut.text, <<"b", "e", "f", "o", "r", "e", "_", "d", "a", "t", "e", " ", "'">>)

\* a request whose only fault is a before_date that is no date was refused
C20_Witness ==
    /\ IsSearchEmails /\ pc = "done"
    /\ req.before_date = BadBefore
    /\ req.after_date = GoodAfter
    /\ req.gmail_query = None
    /\ searchOut.status = "ToolError"
    /\ searchOut.about = "before_date"
    /\ providerCalls = <<>>



DateLinesOf(lines) == {i \in 1..Len(lines) : StartsWith(lines[i], DateLabel)}

\* C21: for every Date header value, if parsing it fails for any reason,
\* format_email_date returns the original string unchanged and no error
\* propagates to the renderer or the tool: a thread of messages is
\* rendered whatever their Date headers hold, and a Date that was not
\* reformatted stands in the document as it came.
C21_DateFormattingNeverFails ==
    (tool \in {"get_email_thread", "get_thread"} /\ pc = "done"
        /\ ThreadMessages(thread) # <<>>) =>
        /\ threadOut.status = "ok"
        /\ LET lines == IF tool = "get_thread" THEN files[threadOut.path]
                        ELSE threadOut.lines
           IN \A i \in 1..Len(ThreadMessages(thread)) :
                LET date == DateOf(ThreadMessages(thread)[i])
                IN date \notin DOMAIN ParsedDates =>
                     \E k \in DateLinesOf(lines) : lines[k] = DateLabel \o date



\* C22 as stated: the get_thread tool, given a thread whose message list
\* is empty, does not fail: it renders the stub document noting that no
\* messages were found.
C22_GetThreadRendersStub ==
    (tool = "get_thread" /\ pc = "done" /\ ThreadMessages(thread) = <<>>) =>
        /\ threadOut.status = "ok"
        /\ \E p \in DOMAIN files : NoMessagesFound \in Range(files[p])

\* C22, amended: the get_thread tool, given a thread whose message list
\* is empty or absent, fails with a ToolError 'No messages found in thread
\* <id>' after its one provider call and writes no file; the stub document
\* is what the renderer gives the thread resource, not this tool.
C22_GetThreadRefusesEmptyThread ==
    (tool = "get_thread" /\ pc = "done" /\ ThreadMessages(thread) = <<>>) =>
        /\ threadOut.status = "ToolError"
        /\ threadOut.text = <<"N", "o", " ", "m", "e", "s", "s", "a", "g", "e", "s", " ", "f", "o", "u", "n", "d", " ", "i", "n", " ", "t", "h", "r", "e", "a", "d", " ">> \o thread_id
        /\ providerCalls = <<ThreadGetCall(thread_id)>>
        /\ files = <<>>

\* get_thread has answered for a thread the provider returned with an
\* empty message list
C22_Witness ==
    /\ tool = "get_thread" /\ pc = "done"
    /\ "messages" \in DOMAIN thread /\ thread.messages = <<>>
    /\ threadOut.status = "ToolError"



\* C23: a single-part message (no part tree) is treated as one implicit
\* leaf under the same rule as any other leaf: its decoded data is the body
\* only when its MIME type is exactly text/plain, so an HTML-only
\* single-part message yields an empty body.
C23_SinglePartIsOneLeaf ==
    (tool = "parse_message_body" /\ pc = "done" /\ "parts" \notin DOMAIN message.payload) =>
        /\ bodyText = PlainTextInOrder(<<message.payload>>)
        /\ message.payload.mimeType = "text/html" => bodyText = <<>>



\* the number of lines written for a field
LinesFor(f) == Cardinality({i \in 1..Len(result_lines) : result_lines[i].field = f})

\* C24 as stated: for every message and every requested FieldSet,
\* format_message_with_fields emits exactly one labeled line for each
\* requested field, with the sole exception of labels, whose line is
\* omitted entirely when the message carries no labels.
C24_OneLinePerFieldButLabels ==
    (tool = "format_message_with_fields" /\ pc = "done") =>
        \A f \in requested_fields :
            LinesFor(f) = IF f = "labels" /\ message.labelIds = <<>> THEN 0 ELSE 1

\* C24, amended: format_message_with_fields emits exactly one labeled
\* line for each requested field and none for any other, with two
\* exceptions: the labels line is omitted when the message carries no
\* labels, and the thread_id line is omitted when the message carries no
\* (or an empty) thread identifier.
C24_OneLinePerFieldButLabelsAndThreadId ==
    (tool = "format_message_with_fields" /\ pc = "done") =>
        \A f \in AVAILABLE_MESSAGE_FIELDS :
            LinesFor(f) = IF f \notin requested_fields THEN 0
                          ELSE IF f = "labels" /\ message.labelIds = <<>> THEN 0
                          ELSE IF f = "thread_id" /\ message.threadId = <<>> THEN 0
                          ELSE 1

\* all fields of a message without labels and without thread id were asked
\* for, and these two have no line
C24_Witness ==
    /\ tool = "format_message_with_fields" /\ pc = "done"
    /\ message.labelIds = <<>> /\ message.threadId = <<>>
    /\ requested_fields = AVAILABLE_MESSAGE_FIELDS
    /\ Len(result_lines) = Cardinality(AVAILABLE_MESSAGE_FIELDS) - 2
    /\ LinesFor("thread_id") = 0 /\ LinesFor("labels") = 0



(***************************************************************************)
(* Attachments: check_message_has_attachments, list_message_attachments    *)
(***************************************************************************)
\* part.get('filename') and part.get('body', {}).get('attachmentId')
IsAttachmentPart(part) ==
    /\ "filename" \in DOMAIN part /\ part.filename # <<>>
    /\ "body" \in DOMAIN part
    /\ "attachmentId" \in DOMAIN part.body /\ part.body.attachmentId # ""

OctetStream == "application/octet-stream"

\* the dictionary list_message_attachments appends for a part
AttachmentDescriptor(part) ==
    [filename |-> part.filename,
     attachment_id |-> part.body.attachmentId,
     mime_type |-> IF "mimeType" \in DOMAIN part THEN part.mimeType ELSE OctetStream,
     size_bytes |-> IF "size" \in DOMAIN part.body THEN part.body.size ELSE 0]

\* a scan of the whole tree for a filename
RECURSIVE AnyNamedPart(_)
AnyNamedPart(parts) ==
    \E i \in 1..Len(parts) :
        \/ "filename" \in DOMAIN parts[i] /\ parts[i].filename # <<>>
        \/ "parts" \in DOMAIN parts[i] /\ AnyNamedPart(parts[i].parts)

check_message_has_attachments_Deep(msg) ==
    IF "parts" \in DOMAIN msg.payload THEN AnyNamedPart(msg.payload.parts)
    ELSE msg.payload.filename # <<>>

\* helpers.check_message_has_attachments
check_message_has_attachments(msg) ==
    /\ "parts" \in DOMAIN msg.payload
    /\ \E i \in 1..Len(msg.payload.parts) :
          "filename" \in DOMAIN msg.payload.parts[i] /\ msg.payload.parts[i].filename # <<>>

\* a traversal that does not look below the parts it is given
find_attachments_NoRecursion(parts) ==
    LET found == SelectSeq(parts, IsAttachmentPart)
    IN [i \in 1..Len(found) |-> AttachmentDescriptor(found[i])]

\* _find_attachments of list_message_attachments
RECURSIVE find_attachments(_)
find_attachments(parts) ==
    IF parts = <<>> THEN <<>>
    ELSE LET part == Head(parts)
         IN (IF IsAttachmentPart(part) THEN <<AttachmentDescriptor(part)>> ELSE <<>>)
            \o (IF "parts" \in DOMAIN part THEN find_attachments(part.parts) ELSE <<>>)
            \o find_attachments(Tail(parts))

\* gmail.list_message_attachments, after its get_message
list_message_attachments(msg) ==
    IF "parts" \in DOMAIN msg.payload THEN find_attachments(msg.payload.parts)
    ELSE IF IsAttachmentPart(msg.payload) THEN <<AttachmentDescriptor(msg.payload)>>
    ELSE <<>>

\* a part with a filename whose bytes are inline: it has no attachment id
InlineNamed == [mimeType |-> "image/png", filename |-> <<"i", ".", "p", "n", "g">>,
                body |-> [size |-> 4, data |-> DataOk]]
\* a container that carries a filename itself (a forwarded message)
NamedContainer(ps) ==
    [mimeType |-> "message/rfc822", filename |-> <<"f", ".", "e", "m", "l">>,
     body |-> [size |-> 7, attachmentId |-> "att3"], parts |-> ps]

AttachLeaves == {PlainHi, PdfLeaf, TxtAttachment, InlineNamed}

MaxParts == 3

RECURSIVE AttachTrees(_), AttachForests(_)
\* the parts with exactly n nodes
AttachTrees(n) ==
    IF n = 1 THEN AttachLeaves
    ELSE {Container(f) : f \in AttachForests(n - 1)}
            \cup {NamedContainer(f) : f \in AttachForests(n - 1)}
\* the part lists with exactly n nodes in all
AttachForests(n) ==
    IF n = 0 THEN {<<>>}
    ELSE UNION {{<<t>> \o f : t \in AttachTrees(k), f \in AttachForests(n - k)} : k \in 1..n}

AttachPayloads ==
    {Payload(<<SubjectHeader>>, l) : l \in AttachLeaves} \cup
    {Payload(<<SubjectHeader>>, Container(f)) :
        f \in UNION {AttachForests(n) : n \in 0..MaxParts}}

InitAttach ==
    /\ pc = "ready"
    /\ tool \in {"check_message_has_attachments", "has_attachments_field",
                 "list_message_attachments"}
    /\ message \in {[id |-> MsgId1, threadId |-> ThreadId1, labelIds |-> <<>>, payload |-> p] :
                        p \in AttachPayloads}
    /\ bodyText = None
    /\ attachOut = [status |-> "pending"]
    /\ IdleThread /\ IdleLife /\ IdleConc /\ IdleCfg /\ IdleStore /\ IdleSan /\ IdleDate
    /\ IdleSearch /\ IdleBatch /\ IdleFields

\* helpers.check_message_has_attachments, as format_message_as_markdown calls it
CheckHasAttachments ==
    /\ pc = "ready"
    /\ tool = "check_message_has_attachments"
    /\ attachOut' = [status |-> "ok", has_attachments |-> check_message_has_attachments(message)]
    /\ pc' = "done"
    /\ UNCHANGED <<tool, files, providerCalls, sanVars, dateVars, searchVars, batchVars,
                   fieldVars, bodyVars, threadVars, lifeVars, concVars, cfgVars>>

\* format_message_with_fields asked for the has_attachments field
HasAttachmentsField ==
    /\ pc = "ready"
    /\ tool = "has_attachments_field"
    /\ LET lines == format_message_with_fields(message, message.id, {"has_attachments"})
       IN attachOut' = [status |-> "ok", has_attachments |-> lines[1].value]
    /\ pc' = "done"
    /\ UNCHANGED <<tool, files, providerCalls, sanVars, dateVars, searchVars, batchVars,
                   fieldVars, bodyVars, threadVars, lifeVars, concVars, cfgVars>>

\* gmail.list_message_attachments
ListMessageAttachments ==
    /\ pc = "ready"
    /\ tool = "list_message_attachments"
    /\ providerCalls' = Append(providerCalls, GetCall(message.id))
    /\ attachOut' = [status |-> "ok", attachments |-> list_message_attachments(message)]
    /\ pc' = "done"
    /\ UNCHANGED <<tool, files, sanVars, dateVars, searchVars, batchVars,
                   fieldVars, bodyVars, threadVars, lifeVars, concVars, cfgVars>>

NextAttach == CheckHasAttachments \/ HasAttachmentsField \/ ListMessageAttachments

SpecAttach == InitAttach /\ [][NextAttach]_vars

HasName(part) == part.filename # <<>>

\* C25: has_attachments is true exactly when some part in the payload's
\* immediate part list carries a non-empty filename; a filename carried
\* only by a part nested deeper in the tree, or by a single-part payload
\* itself, does not make it true.
C25_HasAttachmentsIsShallow ==
    (tool \in {"check_message_has_attachments", "has_attachments_field"} /\ pc = "done") =>
        LET payload == message.payload
            immediate == IF "parts" \in DOMAIN payload THEN Range(payload.parts) ELSE {}
        IN /\ attachOut.has_attachments = (\E part \in immediate : HasName(part))
           /\ "parts" \notin DOMAIN payload => attachOut.has_attachments = FALSE
           /\ (\A part \in immediate : ~HasName(part)) => attachOut.has_attachments = FALSE

\* the only filename of the message is two levels down, and the answer is no
C25_Witness ==
    /\ tool \in {"check_message_has_attachments", "has_attachments_field"} /\ pc = "done"
    /\ "parts" \in DOMAIN message.payload
    /\ message.payload.parts = <<PlainHi, Container(<<PdfLeaf>>)>>
    /\ attachOut.has_attachments = FALSE



\* the parts of a tree in depth-first pre-order: a part, then the parts below it
RECURSIVE PreOrder(_)
PreOrder(parts) ==
    IF parts = <<>> THEN <<>>
    ELSE <<Head(parts)>>
         \o (IF "parts" \in DOMAIN Head(parts) THEN PreOrder(Head(parts).parts) ELSE <<>>)
         \o PreOrder(Tail(parts))

\* C26: list_message_attachments returns exactly one descriptor {filename,
\* attachment id, MIME type, size} for every part at any depth of the
\* message's part tree that has a non-empty filename and an attachment id
\* (and for a single-part payload that has both), in depth-first pre-order,
\* and no descriptor for any other part.
C26_OneDescriptorPerAttachmentPart ==
    (tool = "list_message_attachments" /\ pc = "done") =>
        LET payload == message.payload
            all == IF "parts" \in DOMAIN payload THEN PreOrder(payload.parts) ELSE <<payload>>
            carrying == SelectSeq(all, LAMBDA part :
                            /\ part.filename # <<>>
                            /\ "attachmentId" \in DOMAIN part.body)
        IN /\ Len(attachOut.attachments) = Len(carrying)
           /\ \A i \in 1..Len(carrying) :
                attachOut.attachments[i] =
                    [filename |-> carrying[i].filename,
                     attachment_id |-> carrying[i].body.attachmentId,
                     mime_type |-> carrying[i].mimeType,
                     size_bytes |-> carrying[i].body.size]

\* a named container with an attachment below it, after another attachment:
\* three descriptors, the container's before the one below it
C26_Witness ==
    /\ tool = "list_message_attachments" /\ pc = "done"
    /\ "parts" \in DOMAIN message.payload
    /\ message.payload.parts = <<TxtAttachment, NamedContainer(<<PdfLeaf>>)>>
    /\ Len(attachOut.attachments) = 3
    /\ attachOut.attachments[2].attachment_id = "att3"
    /\ attachOut.attachments[3].attachment_id = "att1"



\* the stored token is missing, or invalid and not refreshable
TokenUnusable == authEnv.token \in {"missing", "expired_no_refresh_token", "no_access_token"}

\* C27: at startup, if the stored token is missing or invalid and cannot
\* be refreshed (no token, not expired, or no refresh token) and the
\* credentials file does not exist, get_gmail_service fails with an error
\* naming the expected credentials file path; no service handle is
\* produced, the token file is neither created nor modified, and service
\* initialization is aborted.
C27_MissingCredentialsAbortStartup ==
    (tool = "server" /\ phase # "down" /\ TokenUnusable /\ ~authEnv.credentials_file) =>
        /\ startupOut.raised = "FileNotFoundError"
        /\ Contains(startupOut.text, <<"c", "r", "e", "d", "e", "n", "t", "i", "a", "l", "s", ".", "j", "s", "o", "n">>)
        /\ ~startupOut.service
        /\ startupOut.token_file = authEnv.token
        /\ phase \in {"aborted", "exited"}
        /\ served = 0 /\ handles = {}

\* startup has aborted on an expired token without refresh token and no
\* credentials file
C27_Witness ==
    /\ tool = "server" /\ phase = "aborted"
    /\ authEnv.token = "expired_no_refresh_token"
    /\ ~authEnv.credentials_file
    /\ startupOut.raised = "FileNotFoundError"

\* C28: if provider authentication fails during startup, after the export
\* directory has been created, the export directory is removed before
\* startup aborts (cleanup runs on every exit path once the directory
\* exists), and no tool invocation is ever served.
C28_DirectoryRemovedWhenStartupAborts ==
    (tool = "server" /\ phase = "aborted") =>
        /\ mkdirs = 1
        /\ ~dirExists /\ rmdirs = 1
        /\ served = 0



Returned == {i \in DOMAIN invocations : invocations[i].at = "returned"}

\* the writes of invocation i to its k-th path, as positions of the log
OwnWrites(i, k) ==
    {n \in 1..Len(writeLog) : writeLog[n].by = i /\ writeLog[n].path = invocations[i].path[k]}

\* the last write to the k-th path of invocation i done before i returned
LastWriteBeforeReturn(i, k) ==
    LET at == {n \in 1..invocations[i].writes_before :
                  writeLog[n].path = invocations[i].path[k]}
    IN writeLog[CHOOSE n \in at : \A m \in at : m <= n]

\* C29 as stated: for every tool invocation that returns an artifact
\* handle, at the moment the handle is returned the file at its path holds
\* exactly the content that this invocation produced, so its size on disk
\* equals the returned size_bytes - for any interleaving with other
\* concurrent tool invocations.
C29_FileIsOwnContentAtReturn ==
    tool = "event_loop" =>
        \A i \in Returned : \A k \in 1..Len(invocations[i].path) :
            /\ \E n \in OwnWrites(i, k) : invocations[i].on_disk[k] = writeLog[n].data
            /\ Len(invocations[i].on_disk[k]) = invocations[i].size_bytes[k]

\* C29, amended: the returned size_bytes is the size of the content this
\* invocation wrote. At the moment the handle is returned the file at its
\* path holds exactly the content of the last write to that path so far:
\* this invocation's own content, with size size_bytes, unless another
\* invocation wrote the same sanitized path while this one was suspended
\* between its write and its return; then the file holds that other
\* invocation's content, whose size may differ from size_bytes.
C29_FileIsLastWriteAtReturn ==
    tool = "event_loop" =>
        \A i \in Returned : \A k \in 1..Len(invocations[i].path) :
            /\ \E n \in OwnWrites(i, k) : invocations[i].size_bytes[k] = Len(writeLog[n].data)
            /\ invocations[i].on_disk[k] = LastWriteBeforeReturn(i, k).data
            /\ LastWriteBeforeReturn(i, k).by = i =>
                  Len(invocations[i].on_disk[k]) = invocations[i].size_bytes[k]

\* the first invocation wrote three bytes, the second overwrote the file
\* with one byte, and then the first returned: its handle says 3, the file
\* holds 1
C29_Witness ==
    /\ tool = "event_loop"
    /\ Len(invocations) = 2 /\ 1 \in Returned
    /\ invocations[1].tool = "download_attachment"
    /\ Len(writeLog) = 2 /\ writeLog[1].by = 1 /\ writeLog[2].by = 2
    /\ invocations[1].writes_before = 2
    /\ invocations[1].size_bytes = <<3>>
    /\ Len(invocations[1].on_disk[1]) = 1



\* the path get_emails writes the i-th item of the request to
ItemPath(i) ==
    JoinPath(ExportDir,
             sanitize_filename(EmailFileName(message_ids[i], Mailbox(message_ids[i]))))

\* C30 as stated: when the file-based get_emails fails on item k, the
\* export directory holds no artifact file written by that call: failing
\* the entire batch leaves the artifact store as it was before the call.
C30_FailedBatchLeavesNoFile ==
    (tool = "get_emails" /\ pc = "done" /\ FirstFailing # 0) => files = <<>>

\* C30, amended: when the file-based get_emails fails on item k, the files
\* it wrote for the items before k stay in the export directory, each
\* holding its item's document, although the call returns no handle for
\* them; nothing is written for any item after k.
C30_FailedBatchKeepsEarlierFiles ==
    (tool = "get_emails" /\ pc = "done" /\ FirstFailing # 0) =>
        /\ batchOut.status = "ToolError"
        /\ \A i \in 1..(FirstFailing - 1) :
              /\ ItemPath(i) \in DOMAIN files
              /\ files[ItemPath(i)].kind = "email"
              /\ files[ItemPath(i)].id = message_ids[i]
        /\ \A p \in DOMAIN files : \E i \in 1..FirstFailing : p = ItemPath(i)

\* three different ids were downloaded with the third failing: two files
\* are left behind
C30_Witness ==
    /\ tool = "get_emails" /\ pc = "done"
    /\ message_ids = <<MsgId1, MsgId2, MsgId3>>
    /\ failing = {3}
    /\ batchOut.status = "ToolError"
    /\ Cardinality(DOMAIN files) = 2


====
